---- MODULE Spec2Model ----
(***************************************************************************)
(* AgentDeck server: Terminal Bridge (lib/terminal.js), Session Protocol   *)
(* Layer and HTTP surface (lib/server.js), Auth Gate (lib/auth.js) and     *)
(* Hook Relay (lib/hooks.js).                                              *)
(*                                                                         *)
(* The server is one Node.js process: every handler below runs to          *)
(* completion before the next event is taken, so each handler is one       *)
(* action.  Sockets (the ws library) and pseudo-terminals (node-pty) are   *)
(* the environment: their events are the actions PeerClose, SocketClosed,  *)
(* PtyData and PtyExit.                                                    *)
(***************************************************************************)
EXTENDS Integers, Sequences, FiniteSets, TLC

VARIABLES
  authDisabled,  \* Auth.disabled
  tmux,          \* the sessions tmux is running, as listSessions() returns them
  presented,     \* per connection: the token its upgrade request carried
  ws,            \* per connection: readyState of its WebSocket ("none" before the upgrade)
  closeCode,     \* per connection: code the server closed it with (0: none)
  clients,       \* AgentDeckServer.clients
  sessionName,   \* per connection: client.sessionName
  terminals,     \* TerminalManager.sessions: name -> TerminalSession
  inbox,         \* per connection: the messages ws.send put on the wire, in order
  stopped,       \* AgentDeckServer.stop() has run
  produced,      \* history: per session name, every byte its PTYs produced, in order
  nOut,          \* history: per session name, number of chunks produced
  exits,         \* history: per session name, number of PTY exits
  subInfo,       \* history: per connection, the Bridge at its last subscription
  events,        \* number of client messages, PTY chunks and PTY exits so far (bound)
  hookReq,       \* last /api/hook request
  hookResp,      \* what the caller of the last /api/hook request got
  hookTrace,     \* events of the last /api/hook request, in order
  recentRequests, \* HookHandler.recentRequests: the stored permission requests, oldest first
  dispatched,    \* number of push/ntfy dispatches started
  hooks,         \* number of /api/hook requests handled (bound)
  build,         \* which of the two lib/server.js sources of the tree the process runs
  secret,        \* Auth.secret of the running process
  ptyInput,      \* history: per session name, the writes made to its PTY and who caused them
  httpReq,       \* last request to /api/auth, /api/sessions or /api/hook/decide
  httpResp,      \* the response to it
  issued,        \* history: the tokens createToken returned, with the secret that signed them
  statusFile,    \* ~/.agentdeck/status.json: absent, or the record writeStatus wrote
  daemon,        \* per process id: how far a `--_server` process has got
  hidden,        \* the process running in the tmux session _agentdeck (NoPid: no such session)
  orch,          \* the `agentdeck` invocation (orchestrator): its position and what it saw
  cmd,           \* the `agentdeck stop` invocation: its position and what it saw
  cmdLog,        \* history: the stop and status invocations completed, in order
  quiet,         \* history: nothing but `stop` has taken a step since a stop completed
  inRow,         \* history: number of stops completed in a row since then
  snap,          \* history: statusFile, daemon, hidden and tmux as the first of them left them
  runs,          \* number of orchestrator invocations (bound)
  cmds,          \* number of stop and status invocations (bound)
  prefix,        \* cfg.agent || 'claude', a string of characters
  registry,      \* the names of the sessions tmux has, hidden ones too, as strings of characters
  inv,           \* per terminal: the orchestrator invocation running step 2 in it
  made,          \* history: the numbers of the names under which step 2 created a session
  freed,         \* history: the names of the sessions that have ended
  starts,        \* number of invocations that reached step 2 (bound)
  page,          \* per connection: the browser page at its other end (public/app.js handlers)
  app,           \* a browser page's `state` and screen, over the connections it makes
  wait,          \* the orchestrator's startup waits: position, clock, and what they poll
  push,          \* PushManager: subscriptions, and the sendNotification calls under way
  twin           \* two orchestrator invocations started at the same time, and their daemons

vars == <<authDisabled, tmux, presented, ws, closeCode, clients, sessionName, terminals, inbox,
          stopped, produced, nOut, exits, subInfo, events,
          hookReq, hookResp, hookTrace, dispatched, hooks, recentRequests,
          build, secret, ptyInput, httpReq, httpResp, issued,
          statusFile, daemon, hidden, orch, cmd, cmdLog, quiet, inRow, snap, runs, cmds,
          prefix, registry, inv, made, freed, starts, page, app, wait, push, twin>>

bridgeVars == <<terminals, produced, nOut, exits>>
hookVars == <<hookReq, hookResp, hookTrace, dispatched, hooks, recentRequests>>
gateVars == <<build, secret, ptyInput, httpReq, httpResp, issued>>
cliVars == <<statusFile, daemon, hidden, orch, cmd, cmdLog, quiet, inRow, snap, runs, cmds>>
nameVars == <<prefix, registry, inv, made, freed, starts>>
appVars == <<page, app>>
moreVars == <<wait, push, twin>>
\* the state of one server process: everything but tmux and the command line's state
serverVars == <<authDisabled, presented, ws, closeCode, clients, sessionName, terminals, inbox,
                stopped, produced, nOut, exits, subInfo, events,
                hookReq, hookResp, hookTrace, dispatched, hooks, recentRequests,
                build, secret, ptyInput, httpReq, httpResp, issued>>

----------------------------------------------------------------------------
(* Bounds *)

BufferSize == 3   \* options.bufferSize, scaled down
MaxEvents == 3    \* client messages, PTY chunks and PTY exits per run
MaxHooks == 1     \* hook requests per run
MaxRuns == 1      \* invocations of the orchestrator
MaxCmds == 2      \* invocations of stop and status
MaxStarts == 4    \* invocations that reach the session-creation step
MaxForegrounds == 1  \* times the page comes back to the foreground
MaxPins == 1      \* PINs entered on the page

Conns == {"c1", "c2"}
Names == {"main", "claude-1"}
NULL == "null"

\* connections are numbered in the order they arrive
Earlier(d, c) == d = "c1" /\ c = "c2"

----------------------------------------------------------------------------
(* Bytes and strings.  A PTY chunk is a string; "a" is a one-byte          *)
(* character, "E" stands for a two-byte character (U+00E9: C3 A9), "?" for *)
(* U+FFFD.                                                                 *)

Chunks == { <<"a">>, <<"E", "E">> }

RECURSIVE Utf8(_)
Utf8(str) ==
  IF str = <<>> THEN <<>>
  ELSE (IF Head(str) = "a" THEN <<97>> ELSE <<195, 169>>) \o Utf8(Tail(str))

RECURSIVE toStringUtf8(_)
toStringUtf8(b) ==
  IF b = <<>> THEN <<>>
  ELSE IF b[1] = 97 THEN <<"a">> \o toStringUtf8(Tail(b))
  ELSE IF b[1] = 195 /\ Len(b) >= 2 /\ b[2] = 169
       THEN <<"E">> \o toStringUtf8(Tail(Tail(b)))
  ELSE <<"?">> \o toStringUtf8(Tail(b))

----------------------------------------------------------------------------
(* Wire messages (lib/protocol.js).  n is history, not on the wire: the    *)
(* number of the chunk a terminal_output carries.                          *)

Msg(type, data, n) == [type |-> type, data |-> data, n |-> n]

terminalOutput(data, isCatchup, n) ==
  Msg(IF isCatchup THEN "terminal_catchup" ELSE "terminal_output", data, n)
sessionsList(listing) == Msg("sessions", [i \in 1..Len(listing) |-> listing[i].name], 0)
attached(s) == Msg("attached", <<s>>, 0)
detached == Msg("detached", <<>>, 0)
notification(title, body) == Msg("notification", <<title, body>>, 0)

\* ws.send: the message goes on the wire iff the socket is OPEN
wsSend(inb, sock, c, m) ==
  IF sock[c] = "OPEN" THEN [inb EXCEPT ![c] = Append(@, m)] ELSE inb

\* client.onData / client.onSessionExit: guarded by ws.readyState === ws.OPEN
onData(inb, sock, c, data, isCatchup, n) ==
  IF sock[c] = "OPEN" THEN wsSend(inb, sock, c, terminalOutput(data, isCatchup, n)) ELSE inb

onSessionExit(inb, sock, c, name, code) ==
  IF sock[c] = "OPEN"
  THEN wsSend(inb, sock, c, Msg("notification", <<"Session ended", name, code>>, 0))
  ELSE inb

----------------------------------------------------------------------------
(* TerminalSession and TerminalManager (lib/terminal.js) *)

\* a TerminalSession: ptyProcess is its handle (TRUE: set); ptys counts the PTY processes
\* it spawned that have neither exited nor been killed
NoSession ==
  [exists |-> FALSE, ptyProcess |-> FALSE, buffer |-> <<>>, clients |-> {}, ptys |-> 0]
newTerminalSession ==
  [exists |-> TRUE, ptyProcess |-> FALSE, buffer |-> <<>>, clients |-> {}, ptys |-> 0]

getOrCreate(T, s) == IF T[s].exists THEN T ELSE [T EXCEPT ![s] = newTerminalSession]

isAlive(sess) == sess.ptyProcess

\* attach(): returns when the handle is set, else pty.spawn
attach(sess) ==
  IF sess.ptyProcess THEN sess ELSE [sess EXCEPT !.ptyProcess = TRUE, !.ptys = @ + 1]

\* _appendBuffer without its trim, and trimming at the wrong end
appendBufferNoTrim(buffer, data, bufferSize) == buffer \o Utf8(data)

appendBufferKeepHead(buffer, data, bufferSize) ==
  LET b == buffer \o Utf8(data)
  IN IF Len(b) > bufferSize THEN SubSeq(b, 1, bufferSize) ELSE b

appendBuffer(buffer, data, bufferSize) ==
  LET b == buffer \o Utf8(data)
  IN IF Len(b) > bufferSize THEN SubSeq(b, Len(b) - bufferSize + 1, Len(b)) ELSE b

\* the deliveries addClient makes to the new client
catchupLive(buffer) ==
  IF Len(buffer) > 0 THEN <<[data |-> toStringUtf8(buffer), isCatchup |-> FALSE]>> ELSE <<>>

catchup(buffer) ==
  IF Len(buffer) > 0 THEN <<[data |-> toStringUtf8(buffer), isCatchup |-> TRUE]>> ELSE <<>>

addClient(sess, c) == [sess EXCEPT !.clients = @ \cup {c}]

\* removeClient leaving the set as it is, and tearing the PTY down with the last client
removeClientNot(sess, c) == sess

removeClientDestroying(sess, c) ==
  IF sess.clients \ {c} = {}
  THEN [sess EXCEPT !.clients = {}, !.ptyProcess = FALSE]
  ELSE [sess EXCEPT !.clients = @ \ {c}]

removeClient(sess, c) == [sess EXCEPT !.clients = @ \ {c}]

destroy(sess) ==
  [sess EXCEPT !.ptyProcess = FALSE, !.clients = {},
               !.ptys = IF sess.ptyProcess THEN @ - 1 ELSE @]

\* an onExit handler that also drops the subscribers
onExitDropping(sess) == [sess EXCEPT !.ptyProcess = FALSE, !.clients = {}, !.ptys = @ - 1]

\* the onExit handler attach() registers: this.ptyProcess = null
onExit(sess) == [sess EXCEPT !.ptyProcess = FALSE, !.ptys = @ - 1]

\* TerminalManager.destroyAll: destroy() on every session, then sessions.clear()
destroyAll(T) ==
  LET destroyed == [s \in DOMAIN T |-> IF T[s].exists THEN destroy(T[s]) ELSE T[s]]
  IN [s \in DOMAIN destroyed |-> NoSession]

\* the clients _broadcast calls onData on
broadcastTargets(sess) == sess.clients

RECURSIVE broadcast(_, _, _, _, _)
broadcast(inb, sock, targets, data, n) ==
  IF targets = {} THEN inb
  ELSE LET c == CHOOSE x \in targets : TRUE
       IN broadcast(onData(inb, sock, c, data, FALSE, n), sock, targets \ {c}, data, n)

RECURSIVE notifyExit(_, _, _, _, _)
notifyExit(inb, sock, targets, name, code) ==
  IF targets = {} THEN inb
  ELSE LET c == CHOOSE x \in targets : TRUE
       IN notifyExit(onSessionExit(inb, sock, c, name, code), sock, targets \ {c}, name, code)

----------------------------------------------------------------------------
(* Auth (lib/auth.js).  A token is a string of hex digits; _hmac is        *)
(* modelled as an injective map from (secret, data) to two-byte digests:   *)
(* the first byte names the secret, the second the data.                   *)

Secret == "k1"       \* crypto.randomBytes(32) of the first process
Pin == "1234"
NoToken == <<"-">>   \* searchParams.get('token') === null

HexDigits == {"0", "1", "2", "3"}

\* the secrets of successive processes: crypto.randomBytes(32) does not repeat
Secrets == <<"k1", "k2", "k3">>

secretDigit(s) == IF s = "k1" THEN "1" ELSE IF s = "k2" THEN "2" ELSE "3"
dataDigit(d) == IF d = Pin THEN "1" ELSE IF d = "no-auth" THEN "2" ELSE "3"

\* _hmac keyed with the same secret in every process
hmacOneSecret(s, data) == <<"0", "1", "0", dataDigit(data)>>

hmac(s, data) == <<"0", secretDigit(s), "0", dataDigit(data)>>

\* Buffer.from(str, 'hex'): whole pairs of hex digits, up to the first that is not one
RECURSIVE fromHex(_)
fromHex(str) ==
  IF Len(str) >= 2 /\ str[1] \in HexDigits /\ str[2] \in HexDigits
  THEN <<<<str[1], str[2]>>>> \o fromHex(Tail(Tail(str)))
  ELSE <<>>

validateToken(disabled, token) ==
  IF disabled THEN TRUE
  ELSE IF token = NoToken \/ token = <<>> THEN FALSE
  ELSE LET expectedBuf == fromHex(hmac(secret, Pin))
           tokenBuf == fromHex(token)
       IN IF Len(tokenBuf) # Len(expectedBuf) THEN FALSE ELSE tokenBuf = expectedBuf

\* the condition under which _handleUpgrade closes the connection
upgradeRejectsMissing(disabled, token) == ~disabled /\ (token = NoToken \/ token = <<>>)

upgradeRejects(disabled, token) == ~disabled /\ ~validateToken(disabled, token)

\* tokens a request may carry: none, the issued one, one issued for another PIN, the
\* issued one followed by a character that is no hex digit
Tokens == { NoToken, hmac(Secret, Pin), hmac(Secret, "0000"),
            hmac(Secret, Pin) \o <<"z">> }

----------------------------------------------------------------------------
(* tmux list-sessions (lib/tmux.js listSessions): what it may return *)

Entry(name, isClaude) == [name |-> name, isClaude |-> isClaude]

Listings == { <<>>,
              <<Entry("main", FALSE)>>,
              <<Entry("main", FALSE), Entry("claude-1", TRUE)>> }

\* listSessions(): the visible sessions of tmux
listSessions == tmux

\* sessions.find(s => s.isClaude) || sessions[0]
targetSession(listing) ==
  IF \E i \in 1..Len(listing) : listing[i].isClaude
  THEN listing[CHOOSE i \in 1..Len(listing) :
                 listing[i].isClaude /\ \A j \in 1..(i-1) : ~listing[j].isClaude].name
  ELSE IF Len(listing) > 0 THEN listing[1].name
  ELSE NULL

----------------------------------------------------------------------------
(* Hook Relay (lib/hooks.js) and its wiring in the server constructor *)

Obj(type, tool) == [kind |-> "object", type |-> type, tool_name |-> tool]
Str(s) == [kind |-> "string", type |-> "undefined", tool_name |-> "undefined"]

\* JSON bodies of a hook POST: {} (also what readJSON makes of a malformed body),
\* a Notification, a PermissionRequest, another type
HookBodies == { Obj("undefined", "undefined"), Obj("Notification", "undefined"),
                Obj("PermissionRequest", "Bash"), Obj("Stop", "undefined") }

AskDecision == "decision.behavior=ask"
EmptyAck == "{}"

handleHookEmptyAck(hookData) ==
  IF hookData.type = "PermissionRequest"
  THEN [result |-> EmptyAck, callback |-> "onPermissionRequest",
        args |-> <<Str("uuid"), hookData>>, steps |-> <<"callback", "return">>]
  ELSE [result |-> EmptyAck, callback |-> "none", args |-> <<>>, steps |-> <<"return">>]

\* HookHandler.handleHook: the value returned, the callback called with its arguments,
\* and the order of the call and the return
\* handleHook forwarding every other event through the notification callback
handleHookForwardAll(hookData) ==
  IF hookData.type = "PermissionRequest"
  THEN [result |-> AskDecision, callback |-> "onPermissionRequest",
        args |-> <<Str("uuid"), hookData>>, steps |-> <<"callback", "return">>]
  ELSE [result |-> EmptyAck, callback |-> "onNotification", args |-> <<hookData>>,
        steps |-> <<"callback", "return">>]

handleHook(hookData) ==
  IF hookData.type = "undefined"
  THEN [result |-> "error: Missing hook type", callback |-> "none", args |-> <<>>,
        steps |-> <<"return">>]
  ELSE IF hookData.type = "Notification"
  THEN [result |-> EmptyAck, callback |-> "onNotification", args |-> <<hookData>>,
        steps |-> <<"callback", "return">>]
  ELSE IF hookData.type = "PermissionRequest"
  THEN [result |-> AskDecision, callback |-> "onPermissionRequest",
        args |-> <<Str("uuid"), hookData>>, steps |-> <<"callback", "return">>]
  ELSE [result |-> "error: Unknown hook type", callback |-> "none", args |-> <<>>,
        steps |-> <<"return">>]

\* hookData?.tool_name || hookData?.toolName || 'Tool'
toolOf(v) == IF v.kind = "object" /\ v.tool_name # "undefined" THEN v.tool_name ELSE "Tool"

\* the message the wired callback broadcasts; the callback reads its first argument
\* HookHandler.maxRecent and _trimRecent(): the oldest entries beyond maxRecent are deleted
maxRecent == 50

trimRecent(list) ==
  IF Len(list) > maxRecent THEN SubSeq(list, Len(list) - maxRecent + 1, Len(list)) ELSE list

\* what one handleHook call leaves in recentRequests: a permission request is stored
\* (before its callback is called), any other event is not
storeEvery(list, hookData) ==
  IF hookData.type # "undefined" THEN trimRecent(Append(list, [hookData |-> hookData])) ELSE list

store(list, hookData) ==
  IF hookData.type = "PermissionRequest"
  THEN trimRecent(Append(list, [hookData |-> hookData]))
  ELSE list

callbackMessage(callback, args) ==
  IF callback = "onPermissionRequest"
  THEN notification("Permission Request", toolOf(args[1]))
  ELSE notification("Claude Code", "")

\* _broadcastToClients
RECURSIVE broadcastToClients(_, _, _, _)
broadcastToClients(inb, sock, targets, m) ==
  IF targets = {} THEN inb
  ELSE LET c == CHOOSE x \in targets : TRUE
       IN broadcastToClients(IF sock[c] = "OPEN" THEN wsSend(inb, sock, c, m) ELSE inb,
                             sock, targets \ {c}, m)

\* the collaborators the wired callback dispatches to: push.sendInfoNotification and
\* ntfy.sendPermission / ntfy.sendIdle, each an async call that may reject
Dispatches == {"push", "ntfy"}

\* what may fail while an event is forwarded: a dispatch, or the sends to the viewers
\* (ws reports a failed send on the socket, which then closes; send does not throw)
Failures == Dispatches \cup {"ws"}

wire(sock, failing) ==
  IF "ws" \in failing THEN [c \in DOMAIN sock |-> IF sock[c] = "OPEN" THEN "BROKEN" ELSE sock[c]]
  ELSE sock

\* a promise left without a catch
swallowNot(outcome) == outcome

\* promise.catch(() => {})
swallow(outcome) == "handled"

\* whether an error of a dispatch reaches the caller of the callback
callbackThrows(failing) ==
  \E d \in Dispatches : swallow(IF d \in failing THEN "rejected" ELSE "fulfilled") = "rejected"

\* the events of one /api/hook request, in the order of the steps of handleHook: the
\* forward at the call of the callback, the response at the return, with whose value
\* _handleHook writes it; nothing follows a callback that threw
RECURSIVE hookEvents(_, _)
hookEvents(steps, threw) ==
  IF steps = <<>> THEN <<>>
  ELSE IF Head(steps) = "callback"
       THEN <<"forward">> \o (IF threw THEN <<>> ELSE hookEvents(Tail(steps), threw))
       ELSE <<"respond">> \o hookEvents(Tail(steps), threw)

\* isLocalhost
Addrs == {"127.0.0.1", "::1", "::ffff:127.0.0.1", "192.168.1.7", "::ffff:192.168.1.7"}

\* isLocalhost taking any IPv4-mapped address for loopback
isLocalhostMapped(addr) ==
  addr \in {"127.0.0.1", "::1", "::ffff:127.0.0.1", "::ffff:192.168.1.7"}

isLocalhost(addr) == addr = "127.0.0.1" \/ addr = "::1" \/ addr = "::ffff:127.0.0.1"

ExitCodes == {"0", "1"}

----------------------------------------------------------------------------
(* Session Protocol Layer (lib/server.js) *)

NoSub == [name |-> NULL, buf |-> <<>>, n |-> 0, start |-> 0]

RECURSIVE sendAll(_, _, _, _)
sendAll(inb, sock, c, deliveries) ==
  IF deliveries = <<>> THEN inb
  ELSE sendAll(onData(inb, sock, c, Head(deliveries).data, Head(deliveries).isCatchup, 0),
               sock, c, Tail(deliveries))

\* _detachClient: the sessions table after it
detachClient(T, sn, c) ==
  IF sn[c] # NULL /\ T[sn[c]].exists
  THEN [T EXCEPT ![sn[c]] = removeClient(@, c)]
  ELSE T

\* _attachClient spawning a PTY at every attach
attachClientRespawn(T, c, s) ==
  LET T1 == getOrCreate(T, s)
      T2 == [T1 EXCEPT ![s].ptyProcess = TRUE, ![s].ptys = @ + 1]
  IN [T2 EXCEPT ![s] = addClient(@, c)]

\* _attachClient: the sessions table after it
attachClient(T, c, s) ==
  LET T1 == getOrCreate(T, s)
      T2 == IF ~isAlive(T1[s]) THEN [T1 EXCEPT ![s] = attach(@)] ELSE T1
  IN [T2 EXCEPT ![s] = addClient(@, c)]

\* an 'attach' case that subscribes before it unsubscribes
handleAttachReversed(T, sn, c, s) == detachClient(attachClient(T, c, s), sn, c)

\* _handleWSMessage, case 'attach': _detachClient(client), then _attachClient(client, session)
handleAttach(T, sn, c, s) == attachClient(detachClient(T, sn, c), c, s)

\* _attachClient: what it sends to the client
attachSends(inb, sock, T, c, s) ==
  wsSend(sendAll(inb, sock, c, catchup(getOrCreate(T, s)[s].buffer)), sock, c, attached(s))

----------------------------------------------------------------------------
(* The command line (bin/cli.js) and what it shares with the daemon: the    *)
(* status file, process ids and the hidden tmux session _agentdeck.         *)

Pids == {"p1", "p2"}   \* process ids of the daemons started
StalePid == "p0"       \* the process id of a daemon of an earlier boot
NoPid == "none"
NoStatus == [pid |-> NoPid]   \* readStatus() === null

NoOrch == [pc |-> "idle", present |-> FALSE, alive |-> FALSE, health |-> "none",
           result |-> "none", spawned |-> NoPid, created |-> NULL, before |-> <<>>, exit |-> "none",
           why |-> "none", probes |-> 0, spawns |-> 0]
NoCmd == [pc |-> "idle", pid |-> NoPid, alive |-> FALSE, exists |-> FALSE,
          hiddenAtStart |-> FALSE,
          from |-> <<0, "idle">>, exit |-> "none"]

\* the terminals `agentdeck` is run in
Terminals == {"t1", "t2"}

NoName == <<>>

NoInv == [pc |-> "idle", attempt |-> 0, name |-> NoName, num |-> 0, fresh |-> FALSE,
          reused |-> FALSE, broke |-> FALSE,
          calls |-> 0, collisions |-> 0, got |-> NoName, created |-> FALSE, exit |-> "none"]

\* no invocation is in its session-creation step
InitNames ==
  /\ prefix = <<"c">>
  /\ registry = {}
  /\ inv = [i \in Terminals |-> NoInv]
  /\ made = <<>>
  /\ freed = {}
  /\ starts = 0

\* the command line before any invocation, no daemon running
InitCli ==
  /\ InitNames
  /\ statusFile = NoStatus
  /\ daemon = [p \in Pids |-> "none"]
  /\ hidden = NoPid
  /\ orch = NoOrch
  /\ cmd = NoCmd
  /\ cmdLog = <<>>
  /\ quiet = FALSE
  /\ inRow = 0
  /\ snap = <<NoStatus, [p \in Pids |-> "none"], NoPid, <<>>>>
  /\ runs = 0
  /\ cmds = 0

Builds == {"unnamed/part_004", "lib/server.js"}
Current == "unnamed/part_004"

\* lib/server.js: sessions.find(s => s.isClaude), no fallback
claudeSession(listing) ==
  IF \E i \in 1..Len(listing) : listing[i].isClaude
  THEN listing[CHOOSE i \in 1..Len(listing) :
                 listing[i].isClaude /\ \A j \in 1..(i-1) : ~listing[j].isClaude].name
  ELSE NULL

\* _onWebSocketConnection: the session a new connection is attached to
autoAttach(b, listing) ==
  IF b = Current THEN targetSession(listing) ELSE claudeSession(listing)

NoRequest == [path |-> "none", cred |-> NoToken, body |-> "none"]
NoResponse == [status |-> 0, body |-> <<>>]

\* `state` of public/app.js as the script sets it (lines 12-24), before init() has run
NoPage == [handled |-> 0, lastSessionList |-> <<>>, picker |-> <<>>, rebuilds |-> 0]
NoApp == [screen |-> "none", token |-> NULL, sock |-> "none", hasConnected |-> FALSE,
          reconnectAttempts |-> 0, timers |-> 0, closed |-> 0, exhausted |-> FALSE,
          sinceOpen |-> 0, sinceReset |-> 0, foregrounds |-> 0, pins |-> 0]

\* no wait under way, no daemon answering, no status record
NoWait == [pc |-> "idle", elapsed |-> 0, probes |-> 0, last |-> "none", got |-> "none",
           late |-> FALSE, up |-> FALSE, record |-> "none"]
\* PushManager: the subscriptions (each named by its endpoint), the sendNotification
\* calls under way, and, as history, the endpoints whose subscription had a delivery
\* fail with 404 or 410 since it was added
Endpoints == {"e1", "e2"}
Senders == {"n1", "n2"}
NoCall == [pc |-> "idle", subs |-> <<>>, pending |-> {}, failed |-> {}]
NoPush == [subscriptions |-> <<>>, calls |-> [k \in Senders |-> NoCall], gone |-> {}]
NoTwin == [i \in Terminals |-> NoOrch]

InitServer ==
  /\ wait = NoWait
  /\ push = NoPush
  /\ twin = NoTwin
  /\ page = [c \in Conns |-> NoPage]
  /\ app = NoApp
  /\ secret = Secret
  /\ ptyInput = [s \in Names |-> <<>>]
  /\ httpReq = NoRequest
  /\ httpResp = NoResponse
  /\ issued = {}
  /\ presented = [c \in Conns |-> NoToken]
  /\ ws = [c \in Conns |-> "none"]
  /\ closeCode = [c \in Conns |-> 0]
  /\ clients = {}
  /\ sessionName = [c \in Conns |-> NULL]
  /\ terminals = [s \in Names |-> NoSession]
  /\ inbox = [c \in Conns |-> <<>>]
  /\ stopped = FALSE
  /\ produced = [s \in Names |-> <<>>]
  /\ nOut = [s \in Names |-> 0]
  /\ exits = [s \in Names |-> 0]
  /\ subInfo = [c \in Conns |-> NoSub]
  /\ events = 0
  /\ hookReq = [addr |-> "none", type |-> "none", failing |-> {}]
  /\ hookResp = [status |-> 0, body |-> "none"]
  /\ hookTrace = <<>>
  /\ recentRequests = <<>>
  /\ dispatched = 0
  /\ hooks = 0

Init == authDisabled = FALSE /\ build = Current /\ tmux \in Listings /\ InitServer /\ InitCli

\* history kept at a subscription of c to s
subscribed(T, inb, c, s) ==
  [name |-> s, buf |-> getOrCreate(T, s)[s].buffer, n |-> nOut[s], start |-> Len(inb[c])]

\* _handleUpgrade, and _onWebSocketConnection when the token is accepted
HandleUpgrade(c, token) ==
  /\ ~stopped
  /\ ws[c] = "none"
  /\ \A d \in Conns : Earlier(d, c) => ws[d] # "none"
  /\ presented' = [presented EXCEPT ![c] = token]
  /\ IF upgradeRejects(authDisabled, token)
     THEN /\ IF build = Current
             THEN /\ ws' = [ws EXCEPT ![c] = "CLOSING"]
                  /\ closeCode' = [closeCode EXCEPT ![c] = 4001]
             ELSE \* lib/server.js: 'HTTP/1.1 401 Unauthorized', socket.destroy()
                  /\ ws' = [ws EXCEPT ![c] = "CLOSED"]
                  /\ UNCHANGED closeCode
          /\ UNCHANGED <<clients, sessionName, terminals, inbox, subInfo>>
     ELSE LET sock == [ws EXCEPT ![c] = "OPEN"]
              sessions == listSessions
              inb1 == wsSend(inbox, sock, c, sessionsList(sessions))
              target == autoAttach(build, sessions)
          IN /\ ws' = sock
             /\ clients' = clients \cup {c}
             /\ UNCHANGED closeCode
             /\ IF target # NULL
                THEN /\ terminals' = attachClient(terminals, c, target)
                     /\ inbox' = attachSends(inb1, sock, terminals, c, target)
                     /\ sessionName' = [sessionName EXCEPT ![c] = target]
                     /\ subInfo' = [subInfo EXCEPT ![c] = subscribed(terminals, inb1, c, target)]
                ELSE /\ inbox' = inb1
                     /\ UNCHANGED <<sessionName, terminals, subInfo>>
  /\ UNCHANGED <<authDisabled, tmux, stopped, produced, nOut, exits, events>>
  /\ UNCHANGED hookVars
  /\ UNCHANGED gateVars
  /\ UNCHANGED cliVars
  /\ UNCHANGED nameVars
  /\ UNCHANGED appVars
  /\ UNCHANGED moreVars

\* _handleWSMessage, case 'attach'
Attach(c, s) ==
  /\ ~stopped /\ ws[c] = "OPEN" /\ c \in clients /\ events < MaxEvents
  /\ LET T1 == detachClient(terminals, sessionName, c)
     IN /\ terminals' = handleAttach(terminals, sessionName, c, s)
        /\ inbox' = attachSends(inbox, ws, T1, c, s)
        /\ subInfo' = [subInfo EXCEPT ![c] = subscribed(T1, inbox, c, s)]
  /\ sessionName' = [sessionName EXCEPT ![c] = s]
  /\ events' = events + 1
  /\ UNCHANGED <<authDisabled, tmux, presented, ws, closeCode, clients, stopped, produced, nOut, exits>>
  /\ UNCHANGED hookVars
  /\ UNCHANGED gateVars
  /\ UNCHANGED cliVars
  /\ UNCHANGED nameVars
  /\ UNCHANGED appVars
  /\ UNCHANGED moreVars

\* _handleWSMessage, case 'detach'
Detach(c) ==
  /\ ~stopped /\ ws[c] = "OPEN" /\ c \in clients /\ events < MaxEvents
  /\ terminals' = detachClient(terminals, sessionName, c)
  /\ sessionName' = [sessionName EXCEPT ![c] = NULL]
  /\ inbox' = wsSend(inbox, ws, c, detached)
  /\ subInfo' = [subInfo EXCEPT ![c] = NoSub]
  /\ events' = events + 1
  /\ UNCHANGED <<authDisabled, tmux, presented, ws, closeCode, clients, stopped, produced, nOut, exits>>
  /\ UNCHANGED hookVars
  /\ UNCHANGED gateVars
  /\ UNCHANGED cliVars
  /\ UNCHANGED nameVars
  /\ UNCHANGED appVars
  /\ UNCHANGED moreVars

\* the peer's close frame arrives, or the connection breaks: readyState leaves OPEN
PeerClose(c) ==
  /\ ~stopped
  /\ ws[c] = "OPEN"
  /\ ws' = [ws EXCEPT ![c] = "CLOSING"]
  /\ UNCHANGED <<authDisabled, tmux, presented, closeCode, clients, sessionName, inbox, stopped, subInfo, events>>
  /\ UNCHANGED bridgeVars
  /\ UNCHANGED hookVars
  /\ UNCHANGED gateVars
  /\ UNCHANGED cliVars
  /\ UNCHANGED nameVars
  /\ UNCHANGED appVars
  /\ UNCHANGED moreVars

\* the socket is closed: the ws.on('close') / ws.on('error') handler of an accepted connection
SocketClosed(c) ==
  /\ ~stopped
  /\ ws[c] = "CLOSING"
  /\ ws' = [ws EXCEPT ![c] = "CLOSED"]
  /\ IF c \in clients
     THEN /\ terminals' = detachClient(terminals, sessionName, c)
          /\ sessionName' = [sessionName EXCEPT ![c] = NULL]
          /\ clients' = clients \ {c}
          /\ subInfo' = [subInfo EXCEPT ![c] = NoSub]
     ELSE UNCHANGED <<terminals, sessionName, clients, subInfo>>
  /\ UNCHANGED <<authDisabled, tmux, presented, closeCode, inbox, stopped, produced, nOut, exits, events>>
  /\ UNCHANGED hookVars
  /\ UNCHANGED gateVars
  /\ UNCHANGED cliVars
  /\ UNCHANGED nameVars
  /\ UNCHANGED appVars
  /\ UNCHANGED moreVars

\* ptyProcess.onData
PtyData(s, data) ==
  /\ ~stopped
  /\ terminals[s].ptyProcess
  /\ events < MaxEvents
  /\ terminals' = [terminals EXCEPT ![s].buffer = appendBuffer(@, data, BufferSize)]
  /\ inbox' = broadcast(inbox, ws, broadcastTargets(terminals[s]), data, nOut[s] + 1)
  /\ produced' = [produced EXCEPT ![s] = @ \o Utf8(data)]
  /\ nOut' = [nOut EXCEPT ![s] = @ + 1]
  /\ events' = events + 1
  /\ UNCHANGED <<authDisabled, tmux, presented, ws, closeCode, clients, sessionName, stopped, exits, subInfo>>
  /\ UNCHANGED hookVars
  /\ UNCHANGED gateVars
  /\ UNCHANGED cliVars
  /\ UNCHANGED nameVars
  /\ UNCHANGED appVars
  /\ UNCHANGED moreVars

\* ptyProcess.onExit
PtyExit(s, exitCode) ==
  /\ ~stopped
  /\ terminals[s].ptyProcess
  /\ events < MaxEvents
  /\ terminals' = [terminals EXCEPT ![s] = onExit(@)]
  /\ inbox' = notifyExit(inbox, ws, terminals[s].clients, s, exitCode)
  /\ exits' = [exits EXCEPT ![s] = @ + 1]
  /\ events' = events + 1
  /\ UNCHANGED <<authDisabled, tmux, presented, ws, closeCode, clients, sessionName, stopped, produced, nOut, subInfo>>
  /\ UNCHANGED hookVars
  /\ UNCHANGED gateVars
  /\ UNCHANGED cliVars
  /\ UNCHANGED nameVars
  /\ UNCHANGED appVars
  /\ UNCHANGED moreVars

\* the setInterval callback of startSessionRefresh
RefreshTick ==
  /\ ~stopped
  /\ events < MaxEvents
  /\ inbox' = broadcastToClients(inbox, ws, clients, sessionsList(listSessions))
  /\ events' = events + 1
  /\ UNCHANGED <<authDisabled, tmux, presented, ws, closeCode, clients, sessionName, stopped, subInfo>>
  /\ UNCHANGED bridgeVars
  /\ UNCHANGED hookVars
  /\ UNCHANGED gateVars
  /\ UNCHANGED cliVars
  /\ UNCHANGED nameVars
  /\ UNCHANGED appVars
  /\ UNCHANGED moreVars

\* _handleHTTP for POST /api/hook: _handleHook, HookHandler.handleHook and the
\* callback the constructor wired to it
HandleHook(addr, hookData, failing) ==
  /\ ~stopped
  /\ hooks < MaxHooks
  /\ hooks' = hooks + 1
  /\ hookReq' = [addr |-> addr, type |-> hookData.type, failing |-> failing]
  /\ IF ~isLocalhost(addr)
     THEN /\ hookResp' = [status |-> 403, body |-> "Hooks only accepted from localhost"]
          /\ hookTrace' = <<>>
          /\ UNCHANGED <<inbox, dispatched, ws, recentRequests>>
     ELSE LET h == handleHook(hookData)
              called == h.callback # "none"
              threw == called /\ callbackThrows(failing)
          IN /\ inbox' = IF called
                         THEN broadcastToClients(inbox, wire(ws, failing), clients,
                                                 callbackMessage(h.callback, h.args))
                         ELSE inbox
             /\ ws' = IF called /\ "ws" \in failing
                      THEN [c \in Conns |-> IF c \in clients /\ ws[c] = "OPEN"
                                             THEN "CLOSING" ELSE ws[c]]
                      ELSE ws
             /\ dispatched' = IF called THEN dispatched + 2 ELSE dispatched
             /\ hookTrace' = hookEvents(h.steps, threw)
             /\ recentRequests' = store(recentRequests, hookData)
             /\ hookResp' = IF threw THEN [status |-> 0, body |-> "none"]
                            ELSE [status |-> 200, body |-> h.result]
  /\ UNCHANGED <<authDisabled, tmux, presented, closeCode, clients, sessionName, stopped,
                 subInfo, events>>
  /\ UNCHANGED bridgeVars
  /\ UNCHANGED gateVars
  /\ UNCHANGED cliVars
  /\ UNCHANGED nameVars
  /\ UNCHANGED appVars
  /\ UNCHANGED moreVars

\* AgentDeckServer.stop (terminals.destroyAll(), then ws.close() on every client);
\* the shutdown handler of bin/cli.js exits the process after it
Stop ==
  /\ ~stopped
  /\ stopped' = TRUE
  /\ terminals' = destroyAll(terminals)
  /\ ws' = [c \in Conns |-> IF c \in clients /\ ws[c] = "OPEN" THEN "CLOSING" ELSE ws[c]]
  /\ UNCHANGED <<authDisabled, tmux, presented, closeCode, clients, sessionName, inbox, produced, nOut, exits,
                 subInfo, events>>
  /\ UNCHANGED hookVars
  /\ UNCHANGED gateVars
  /\ UNCHANGED cliVars
  /\ UNCHANGED nameVars
  /\ UNCHANGED appVars
  /\ UNCHANGED moreVars

----------------------------------------------------------------------------
(* Spec: the Terminal Bridge and the Session Protocol Layer, with viewers   *)
(* that hold the token.                                                     *)

Next ==
  \/ \E c \in Conns : HandleUpgrade(c, hmac(Secret, Pin))
  \/ \E c \in Conns, s \in Names : Attach(c, s)
  \/ \E c \in Conns : Detach(c)
  \/ \E c \in Conns : PeerClose(c)
  \/ \E c \in Conns : SocketClosed(c)
  \/ \E s \in Names, data \in Chunks : PtyData(s, data)
  \/ \E s \in Names, code \in ExitCodes : PtyExit(s, code)
  \/ Stop

Spec == Init /\ [][Next]_vars

(* SpecAuth: connection attempts with any token on a server with auth      *)
(* enabled, while terminals produce output, the session list is refreshed  *)
(* and loopback hooks are broadcast.                                       *)

NextAuth ==
  \/ \E c \in Conns, token \in Tokens : HandleUpgrade(c, token)
  \/ \E c \in Conns : PeerClose(c)
  \/ \E c \in Conns : SocketClosed(c)
  \/ \E s \in Names : PtyData(s, <<"a">>)
  \/ RefreshTick
  \/ HandleHook("127.0.0.1", Obj("PermissionRequest", "Bash"), {})

SpecAuth == Init /\ [][NextAuth]_vars

(* SpecHook: /api/hook requests from any source address, with any body and *)
(* any failing dispatches, while viewers come and go.                      *)

InitHook ==
  /\ authDisabled \in BOOLEAN /\ build = Current
  /\ tmux = <<Entry("main", FALSE), Entry("claude-1", TRUE)>>
  /\ InitServer /\ InitCli

NextHook ==
  \/ \E c \in Conns, token \in {NoToken, hmac(Secret, Pin)} : HandleUpgrade(c, token)
  \/ \E c \in Conns : PeerClose(c)
  \/ \E c \in Conns : SocketClosed(c)
  \/ \E addr \in Addrs, hookData \in HookBodies, failing \in SUBSET Failures :
       HandleHook(addr, hookData, failing)

SpecHook == InitHook /\ [][NextHook]_vars

----------------------------------------------------------------------------
(* Entry points that reach a pseudo-terminal or the session list.          *)
(* lib/server.js is in the tree in two states: unnamed/part_004, which     *)
(* bin/cli.js runs against (it exports STATUS_PATH and serves /api/health), *)
(* and lib/server.js, which also routes POST /api/hook/decide and the      *)
(* 'decision' message to _handleDecision.                                  *)

permissionResolved(id, behavior) == Msg("permission_resolved", <<id, behavior>>, 0)

\* TerminalSession.write: the input of the PTY after it, with the credential of the
\* request that caused the write
\* a write that does not look at the handle
writeUnguarded(sess, log, data, cred) == Append(log, [data |-> data, cred |-> cred])

\* TerminalSession.write: if (this.ptyProcess) this.ptyProcess.write(data)
write(sess, log, data, cred) ==
  IF sess.exists /\ sess.ptyProcess THEN Append(log, [data |-> data, cred |-> cred]) ELSE log

\* Auth.check
check(disabled, token) == IF disabled THEN TRUE ELSE validateToken(disabled, token)

DecideBodies == { [id |-> "undefined", behavior |-> "undefined"],
                  [id |-> "uuid", behavior |-> "allow"],
                  [id |-> "uuid", behavior |-> "deny"] }

\* _handleDecision: the inputs of every live PTY after it
handleDecision(T, log, behavior, cred) ==
  [s \in Names |-> write(T[s], log[s], IF behavior = "allow" THEN "y" ELSE "n", cred)]

\* _handleWSMessage, case 'terminal_input'
Input(c, data) ==
  /\ ~stopped /\ ws[c] = "OPEN" /\ c \in clients /\ events < MaxEvents
  /\ ptyInput' = IF sessionName[c] # NULL
                 THEN [ptyInput EXCEPT ![sessionName[c]] =
                         write(terminals[sessionName[c]], @, data, presented[c])]
                 ELSE ptyInput
  /\ events' = events + 1
  /\ UNCHANGED <<authDisabled, tmux, presented, ws, closeCode, clients, sessionName, inbox,
                 stopped, subInfo, build, secret, httpReq, httpResp, issued>>
  /\ UNCHANGED bridgeVars
  /\ UNCHANGED hookVars
  /\ UNCHANGED cliVars
  /\ UNCHANGED nameVars
  /\ UNCHANGED appVars
  /\ UNCHANGED moreVars

\* _handleWSMessage, case 'decision' (lib/server.js)
Decision(c, body) ==
  /\ build = "lib/server.js"
  /\ ~stopped /\ ws[c] = "OPEN" /\ c \in clients /\ events < MaxEvents
  /\ inbox' = broadcastToClients(inbox, ws, clients, permissionResolved(body.id, body.behavior))
  /\ ptyInput' = handleDecision(terminals, ptyInput, body.behavior, presented[c])
  /\ events' = events + 1
  /\ UNCHANGED <<authDisabled, tmux, presented, ws, closeCode, clients, sessionName,
                 stopped, subInfo, build, secret, httpReq, httpResp, issued>>
  /\ UNCHANGED bridgeVars
  /\ UNCHANGED hookVars
  /\ UNCHANGED cliVars
  /\ UNCHANGED nameVars
  /\ UNCHANGED appVars
  /\ UNCHANGED moreVars

\* _handleHTTP for POST /api/hook/decide: _handleHookDecide (lib/server.js)
HandleHookDecide(token, body) ==
  /\ build = "lib/server.js"
  /\ ~stopped /\ events < MaxEvents
  /\ httpReq' = [path |-> "/api/hook/decide", cred |-> token, body |-> body.behavior]
  /\ IF body.id = "undefined" \/ body.behavior = "undefined"
     THEN /\ httpResp' = [status |-> 400, body |-> <<"Missing id or behavior">>]
          /\ UNCHANGED <<inbox, ptyInput>>
     ELSE /\ inbox' = broadcastToClients(inbox, ws, clients,
                                         permissionResolved(body.id, body.behavior))
          /\ ptyInput' = handleDecision(terminals, ptyInput, body.behavior, token)
          /\ httpResp' = [status |-> 200, body |-> <<"ok">>]
  /\ events' = events + 1
  /\ UNCHANGED <<authDisabled, tmux, presented, ws, closeCode, clients, sessionName,
                 stopped, subInfo, build, secret, issued>>
  /\ UNCHANGED bridgeVars
  /\ UNCHANGED hookVars
  /\ UNCHANGED cliVars
  /\ UNCHANGED nameVars
  /\ UNCHANGED appVars
  /\ UNCHANGED moreVars

\* _handleHTTP for GET /api/sessions: _handleSessions
HandleSessions(token) ==
  /\ ~stopped /\ events < MaxEvents
  /\ httpReq' = [path |-> "/api/sessions", cred |-> token, body |-> "none"]
  /\ httpResp' = IF ~check(authDisabled, token)
                 THEN [status |-> 401, body |-> <<"Unauthorized">>]
                 ELSE [status |-> 200, body |-> sessionsList(listSessions).data]
  /\ events' = events + 1
  /\ UNCHANGED <<authDisabled, tmux, presented, ws, closeCode, clients, sessionName, inbox,
                 stopped, subInfo, build, secret, ptyInput, issued>>
  /\ UNCHANGED bridgeVars
  /\ UNCHANGED hookVars
  /\ UNCHANGED cliVars
  /\ UNCHANGED nameVars
  /\ UNCHANGED appVars
  /\ UNCHANGED moreVars

(* SpecGate: requests with and without the token at the entry points that   *)
(* write to a pseudo-terminal or return the session list, auth enabled.     *)

InitGate == authDisabled = FALSE /\ build \in Builds /\ tmux \in Listings /\ InitServer /\ InitCli

NextGate ==
  \/ \E c \in Conns, token \in {NoToken, hmac(Secret, Pin)} : HandleUpgrade(c, token)
  \/ \E c \in Conns : Input(c, "x")
  \/ \E c \in Conns, body \in DecideBodies : Decision(c, body)
  \/ \E body \in DecideBodies : HandleHookDecide(NoToken, body)
  \/ \E token \in Tokens : HandleSessions(token)
  \/ \E c \in Conns : PeerClose(c)
  \/ \E c \in Conns : SocketClosed(c)
  \/ \E s \in Names : PtyExit(s, "0")

SpecGate == InitGate /\ [][NextGate]_vars

----------------------------------------------------------------------------
(* Token issue (POST or GET /api/auth) and process restarts *)

\* what a request to /api/auth submits.  json is what readJSON resolves to for a POST:
\* an object (also for an empty or malformed body) or the JSON value null; pin is
\* body.pin, or the pin query parameter of a GET.  "1234 (number)" is the JSON number.
AuthRequests ==
  { [method |-> "GET", json |-> "none", pin |-> p] : p \in {"null", Pin, "0000"} }
    \cup { [method |-> "POST", json |-> "object", pin |-> p] :
             p \in {"undefined", Pin, "0000", "1234 (number)"} }
    \cup { [method |-> "POST", json |-> "null", pin |-> "undefined"] }

\* Auth.createToken: NoToken stands for null
createToken(disabled, pin) ==
  IF ~disabled /\ pin # Pin THEN NoToken
  ELSE hmac(secret, IF pin \in {"undefined", "null"} THEN "no-auth" ELSE pin)

\* _handleHTTP for /api/auth: _handleAuth.  `body.pin` of the JSON value null throws
\* inside the async handler; _handleHTTP returns that promise without awaiting it, so
\* its catch does not run and no response is written.
HandleAuth(req) ==
  /\ ~stopped /\ events < MaxEvents
  /\ httpReq' = [path |-> "/api/auth", cred |-> NoToken,
                 body |-> IF req.json = "null" THEN "null" ELSE req.pin]
  /\ IF req.json = "null"
     THEN /\ httpResp' = [status |-> 0, body |-> <<>>]
          /\ UNCHANGED issued
     ELSE LET token == createToken(authDisabled, req.pin)
          IN IF token = NoToken
             THEN /\ httpResp' = [status |-> 401, body |-> <<"Invalid PIN">>]
                  /\ UNCHANGED issued
             ELSE /\ httpResp' = [status |-> 200, body |-> token]
                  /\ issued' = issued \cup {[token |-> token, secret |-> secret]}
  /\ events' = events + 1
  /\ UNCHANGED <<authDisabled, tmux, presented, ws, closeCode, clients, sessionName, inbox,
                 stopped, subInfo, build, secret, ptyInput>>
  /\ UNCHANGED bridgeVars
  /\ UNCHANGED hookVars
  /\ UNCHANGED cliVars
  /\ UNCHANGED nameVars
  /\ UNCHANGED appVars
  /\ UNCHANGED moreVars

NextSecret(s) == IF s = Secrets[1] THEN Secrets[2] ELSE Secrets[3]

\* the process ends and bin/cli.js starts a new one with the same configuration: a new
\* AgentDeckServer, whose Auth draws a new secret
Restart ==
  /\ secret # Secrets[Len(Secrets)]
  /\ secret' = NextSecret(secret)
  /\ presented' = [c \in Conns |-> NoToken]
  /\ ws' = [c \in Conns |-> "none"]
  /\ closeCode' = [c \in Conns |-> 0]
  /\ clients' = {}
  /\ sessionName' = [c \in Conns |-> NULL]
  /\ terminals' = [s \in Names |-> NoSession]
  /\ inbox' = [c \in Conns |-> <<>>]
  /\ stopped' = FALSE
  /\ subInfo' = [c \in Conns |-> NoSub]
  /\ events' = 0
  /\ httpReq' = NoRequest
  /\ httpResp' = NoResponse
  /\ UNCHANGED <<authDisabled, tmux, produced, nOut, exits, build, ptyInput, issued>>
  /\ UNCHANGED hookVars
  /\ UNCHANGED cliVars
  /\ UNCHANGED nameVars
  /\ UNCHANGED appVars
  /\ UNCHANGED moreVars

\* token strings a request may carry in this state: those of Tokens, the empty string,
\* one byte of the issued token, the issued token followed by one more hex digit, and
\* every token any process has issued
TokenStrings ==
  Tokens \cup { <<>>, SubSeq(hmac(secret, Pin), 1, 2), hmac(secret, Pin) \o <<"1">>,
                hmac(secret, Pin) }
         \cup { i.token : i \in issued }

\* a request to /api/sessions presenting one of them
PresentToken == \E token \in TokenStrings : HandleSessions(token)

(* SpecToken: tokens are issued and presented, across restarts of the        *)
(* process.                                                                  *)

InitToken == authDisabled \in BOOLEAN /\ build = Current /\ tmux \in Listings /\ InitServer /\ InitCli

NextToken ==
  \/ \E req \in AuthRequests : HandleAuth(req)
  \/ PresentToken
  \/ Restart

SpecToken == InitToken /\ [][NextToken]_vars

----------------------------------------------------------------------------
(* Orchestrator, daemon start-up and shutdown, stop and status (bin/cli.js). *)
(* The command-line invocations and the daemon are separate processes: a     *)
(* step is what one of them does between two points where another can act.   *)
(* A signal that ends a process ends it in the step that sends it.           *)

\* isPidAlive: process.kill(pid, 0) succeeds
isPidAlive(p) == p \in Pids /\ daemon[p] \notin {"none", "dead"}

\* the daemon's HTTP server accepts requests: from listen() until server.close()
listening(p) == daemon[p] \in {"tunnel", "ready", "stopping"}

\* checkHealth can succeed
healthy == \E p \in Pids : listening(p)

\* AgentDeckServer.writeStatus
writeStatus(p) == [pid |-> p]

\* AgentDeckServer.deleteStatus, and one that leaves the file
deleteStatusNot(f) == f

deleteStatus(f) == NoStatus

\* a fatal handler that only exits
fatalExitOnly(f) == f

\* serverMode().catch: deleteStatus(), process.exit(1)
fatal(f) == deleteStatus(f)

\* the tmux server: its visible sessions and its hidden one
TmuxOf(listing, hid) == [visible |-> listing, hidden |-> hid]

RECURSIVE without(_, _)
without(listing, name) ==
  IF listing = <<>> THEN <<>>
  ELSE (IF Head(listing).name = name THEN <<>> ELSE <<Head(listing)>>)
         \o without(Tail(listing), name)

\* tmux kill-server in the place of kill-session
killSessionAll(tm, target) == TmuxOf(<<>>, NoPid)

\* tmux kill-session -t target
killSession(tm, target) ==
  IF target = "_agentdeck" THEN TmuxOf(tm.visible, NoPid)
  ELSE TmuxOf(without(tm.visible, target), tm.hidden)

\* sessionExists
sessionExists(tm, target) ==
  IF target = "_agentdeck" THEN tm.hidden # NoPid
  ELSE \E i \in 1..Len(tm.visible) : tm.visible[i].name = target

\* a try block with no catch
tryCatchNot(outcome) == outcome

\* try { ... } catch {}
tryCatch(outcome) == "caught"

\* what SIGTERM does to a daemon: it ends one that has not yet installed its handlers,
\* and queues the shutdown handler of one that has
sigterm(phase) ==
  IF phase \in {"starting", "tunnel"} THEN "dead"
  ELSE IF phase = "ready" THEN "stopping"
  ELSE phase

\* the hidden session ends with the process running in it
sessionOf(d, hid) == IF hid # NoPid /\ d[hid] = "dead" THEN NoPid ELSE hid

ClaudeNames == <<"claude-1", "claude-2", "claude-3", "claude-4", "claude-5">>

sessionNumber(name) ==
  IF \E n \in 1..Len(ClaudeNames) : ClaudeNames[n] = name
  THEN CHOOSE n \in 1..Len(ClaudeNames) : ClaudeNames[n] = name
  ELSE 0

RECURSIVE maxNumber(_)
maxNumber(listing) ==
  IF listing = <<>> THEN 0
  ELSE LET n == sessionNumber(Head(listing).name)
           r == maxNumber(Tail(listing))
       IN IF n > r THEN n ELSE r

\* nextSessionName('claude')
nextSessionName(listing) == ClaudeNames[maxNumber(listing) + 1]

\* isClaudeSession
isClaudeSession(name) == sessionNumber(name) > 0

State == <<statusFile, daemon, hidden, tmux>>

\* how far the invocations of the orchestrator have got
position == <<runs, orch.pc>>

NoSnap == <<NoStatus, [p \in Pids |-> "none"], NoPid, <<>>>>

\* a step of another process ends a row of stops
disturb ==
  /\ quiet' = FALSE
  /\ inRow' = 0
  /\ snap' = NoSnap

\* ---- the daemon (serverMode) ----

\* server.start() resolves, or fails with EADDRINUSE when the port is in use, by
\* another daemon or by another program
DaemonListen(p, inUse) ==
  /\ daemon[p] = "starting"
  /\ (\E q \in Pids : q # p /\ listening(q)) => inUse
  /\ IF inUse
     THEN /\ daemon' = [daemon EXCEPT ![p] = "dead"]
          /\ UNCHANGED statusFile
     ELSE /\ daemon' = [daemon EXCEPT ![p] = "tunnel"]
          /\ statusFile' = writeStatus(p)
  /\ hidden' = sessionOf(daemon', hidden)
  /\ disturb
  /\ UNCHANGED <<tmux, orch, cmd, cmdLog, runs, cmds>>
  /\ UNCHANGED serverVars
  /\ UNCHANGED nameVars
  /\ UNCHANGED appVars
  /\ UNCHANGED moreVars

\* serverMode rejects before the signal handlers are installed: the fatal handler
DaemonFatal(p) ==
  /\ daemon[p] \in {"starting", "tunnel"}
  /\ statusFile' = fatal(statusFile)
  /\ daemon' = [daemon EXCEPT ![p] = "dead"]
  /\ hidden' = sessionOf(daemon', hidden)
  /\ disturb
  /\ UNCHANGED <<tmux, orch, cmd, cmdLog, runs, cmds>>
  /\ UNCHANGED serverVars
  /\ UNCHANGED nameVars
  /\ UNCHANGED appVars
  /\ UNCHANGED moreVars

\* startTunnel has resolved: the status is written again and the handlers installed
DaemonReady(p) ==
  /\ daemon[p] = "tunnel"
  /\ statusFile' = writeStatus(p)
  /\ daemon' = [daemon EXCEPT ![p] = "ready"]
  /\ disturb
  /\ UNCHANGED <<tmux, hidden, orch, cmd, cmdLog, runs, cmds>>
  /\ UNCHANGED serverVars
  /\ UNCHANGED nameVars
  /\ UNCHANGED appVars
  /\ UNCHANGED moreVars

\* the shutdown handler runs: server.stop()
DaemonShutdown(p) ==
  /\ daemon[p] = "stopping"
  /\ statusFile' = deleteStatus(statusFile)
  /\ daemon' = [daemon EXCEPT ![p] = "closing"]
  /\ disturb
  /\ UNCHANGED <<tmux, hidden, orch, cmd, cmdLog, runs, cmds>>
  /\ UNCHANGED serverVars
  /\ UNCHANGED nameVars
  /\ UNCHANGED appVars
  /\ UNCHANGED moreVars

\* server.close has resolved: process.exit(0)
DaemonExit(p) ==
  /\ daemon[p] = "closing"
  /\ daemon' = [daemon EXCEPT ![p] = "dead"]
  /\ hidden' = sessionOf(daemon', hidden)
  /\ disturb
  /\ UNCHANGED <<tmux, statusFile, orch, cmd, cmdLog, runs, cmds>>
  /\ UNCHANGED serverVars
  /\ UNCHANGED nameVars
  /\ UNCHANGED appVars
  /\ UNCHANGED moreVars

\* ---- the orchestrator ----

\* an orchestrator that starts a server whatever the state check says
afterCheckAlwaysSpawn(result) == "spawn"

\* orchestrator, step 1: if (!serverRunning) { start the server } else { already running }
afterCheck(result) == IF result = "HEALTHY" THEN "session" ELSE "spawn"

OrchStart ==
  /\ orch.pc \in {"idle", "done", "failed"}
  /\ runs < MaxRuns
  /\ runs' = runs + 1
  /\ orch' = [NoOrch EXCEPT !.pc = "check", !.before = tmux]
  /\ disturb
  /\ UNCHANGED <<tmux, statusFile, daemon, hidden, cmd, cmdLog, cmds>>
  /\ UNCHANGED serverVars
  /\ UNCHANGED nameVars
  /\ UNCHANGED appVars
  /\ UNCHANGED moreVars

\* isServerRunning up to the health request
OrchReadStatus ==
  /\ orch.pc = "check"
  /\ IF statusFile = NoStatus
     THEN /\ orch' = [orch EXCEPT !.pc = afterCheck("NO_DAEMON"), !.result = "NO_DAEMON"]
          /\ UNCHANGED statusFile
     ELSE IF ~isPidAlive(statusFile.pid)
     THEN /\ orch' = [orch EXCEPT !.pc = afterCheck("NO_DAEMON"), !.present = TRUE,
                                  !.result = "NO_DAEMON"]
          /\ statusFile' = deleteStatus(statusFile)
     ELSE /\ orch' = [orch EXCEPT !.pc = "health", !.present = TRUE, !.alive = TRUE]
          /\ UNCHANGED statusFile
  /\ disturb
  /\ UNCHANGED <<tmux, daemon, hidden, cmd, cmdLog, runs, cmds>>
  /\ UNCHANGED serverVars
  /\ UNCHANGED nameVars
  /\ UNCHANGED appVars
  /\ UNCHANGED moreVars

\* isServerRunning from the result of checkHealth: ok can be true only if a daemon
\* answers; it can be false whenever the request fails or takes more than 3 s
OrchHealth(ok) ==
  /\ orch.pc = "health"
  /\ ok => healthy
  /\ IF ok
     THEN /\ orch' = [orch EXCEPT !.pc = afterCheck("HEALTHY"), !.health = "ok",
                                  !.result = "HEALTHY", !.probes = @ + 1]
          /\ UNCHANGED statusFile
     ELSE /\ orch' = [orch EXCEPT !.pc = afterCheck("NO_DAEMON"), !.health = "failed",
                                  !.result = "NO_DAEMON"]
          /\ statusFile' = deleteStatus(statusFile)
  /\ disturb
  /\ UNCHANGED <<tmux, daemon, hidden, cmd, cmdLog, runs, cmds>>
  /\ UNCHANGED serverVars
  /\ UNCHANGED nameVars
  /\ UNCHANGED appVars
  /\ UNCHANGED moreVars

\* createSession('_agentdeck', serverCmd): tmux refuses a duplicate session and the
\* orchestrator's catch exits 1
OrchSpawn ==
  /\ orch.pc = "spawn"
  /\ sessionExists(TmuxOf(tmux, hidden), "_agentdeck") \/ \E p \in Pids : daemon[p] = "none"
  /\ IF sessionExists(TmuxOf(tmux, hidden), "_agentdeck")
     THEN /\ orch' = [orch EXCEPT !.pc = "failed", !.exit = "1", !.why = "error"]
          /\ UNCHANGED <<daemon, hidden>>
     ELSE LET p == CHOOSE q \in Pids : daemon[q] = "none" /\ (q = "p1" \/ daemon["p1"] # "none")
          IN /\ daemon' = [daemon EXCEPT ![p] = "starting"]
             /\ hidden' = p
             /\ orch' = [orch EXCEPT !.pc = "poll", !.spawned = p, !.spawns = @ + 1]
  /\ disturb
  /\ UNCHANGED <<tmux, statusFile, cmd, cmdLog, runs, cmds>>
  /\ UNCHANGED serverVars
  /\ UNCHANGED nameVars
  /\ UNCHANGED appVars
  /\ UNCHANGED moreVars

\* waitForServer: a poll succeeds
OrchPollOk ==
  /\ orch.pc = "poll"
  /\ healthy
  /\ orch' = [orch EXCEPT !.pc = "session", !.probes = @ + 1]
  /\ disturb
  /\ UNCHANGED <<tmux, statusFile, daemon, hidden, cmd, cmdLog, runs, cmds>>
  /\ UNCHANGED serverVars
  /\ UNCHANGED nameVars
  /\ UNCHANGED appVars
  /\ UNCHANGED moreVars

\* waitForServer: 20 s have passed without a poll that succeeded
OrchPollTimeout ==
  /\ orch.pc = "poll"
  /\ orch' = [orch EXCEPT !.pc = "failed", !.exit = "1", !.why = "timeout"]
  /\ disturb
  /\ UNCHANGED <<tmux, statusFile, daemon, hidden, cmd, cmdLog, runs, cmds>>
  /\ UNCHANGED serverVars
  /\ UNCHANGED nameVars
  /\ UNCHANGED appVars
  /\ UNCHANGED moreVars

\* step 2 and 3: createSession(nextSessionName(agent)), attach, the user detaches
OrchCreateSession ==
  /\ orch.pc = "session"
  /\ LET name == nextSessionName(tmux)
     IN /\ tmux' = Append(tmux, Entry(name, isClaudeSession(name)))
        /\ orch' = [orch EXCEPT !.pc = "done", !.created = name, !.exit = "0"]
  /\ disturb
  /\ UNCHANGED <<statusFile, daemon, hidden, cmd, cmdLog, runs, cmds>>
  /\ UNCHANGED serverVars
  /\ UNCHANGED nameVars
  /\ UNCHANGED appVars
  /\ UNCHANGED moreVars

\* ---- agentdeck stop ----

\* the log holds the last two invocations of stop and status
logged(log, entry) == IF Len(log) >= 2 THEN <<log[Len(log)], entry>> ELSE Append(log, entry)

\* the invocation has returned: exit code, log, and the history of stops in a row
stopDone(c, out) ==
  /\ cmd' = [NoCmd EXCEPT !.pc = "done", !.from = c.from, !.exit = c.exit]
  /\ cmdLog' = logged(cmdLog, [cmd |-> "stop", out |-> out, sawRecord |-> c.pid # NoPid,
                               hiddenAtStart |-> c.hiddenAtStart,
                               hiddenAtEnd |-> hidden' # NoPid,
                               alone |-> c.from = position,
                               exit |-> c.exit])
  /\ quiet' = TRUE
  /\ inRow' = IF quiet THEN inRow + 1 ELSE 1
  /\ snap' = IF quiet THEN snap ELSE <<statusFile', daemon', hidden', tmux'>>

\* stopCommand: readStatus, and the return when there is no record
StopRead ==
  /\ cmd.pc \in {"idle", "done"}
  /\ cmds < MaxCmds
  /\ cmds' = cmds + 1
  /\ LET c == [NoCmd EXCEPT !.pid = statusFile.pid, !.hiddenAtStart = hidden # NoPid,
                           !.from = position]
     IN IF statusFile = NoStatus
        THEN /\ UNCHANGED <<statusFile, daemon, hidden, tmux>>
             /\ stopDone([c EXCEPT !.pc = "done", !.exit = "0"], "not running")
        ELSE /\ cmd' = [c EXCEPT !.pc = "pidcheck"]
             /\ UNCHANGED <<statusFile, daemon, hidden, tmux, cmdLog, quiet, inRow, snap>>
  /\ UNCHANGED <<orch, runs>>
  /\ UNCHANGED serverVars
  /\ UNCHANGED nameVars
  /\ UNCHANGED appVars
  /\ UNCHANGED moreVars

\* status.pid && isPidAlive(status.pid)
StopPidCheck ==
  /\ cmd.pc = "pidcheck"
  /\ cmd' = [cmd EXCEPT !.pc = "kill", !.alive = isPidAlive(cmd.pid)]
  /\ UNCHANGED <<tmux, statusFile, daemon, hidden, orch, cmdLog, quiet, inRow, snap, runs, cmds>>
  /\ UNCHANGED serverVars
  /\ UNCHANGED nameVars
  /\ UNCHANGED appVars
  /\ UNCHANGED moreVars

\* try { process.kill(status.pid, 'SIGTERM') } catch {}: the call throws when the
\* process has gone since the check
StopKill ==
  /\ cmd.pc = "kill"
  /\ LET thrown == cmd.alive /\ ~isPidAlive(cmd.pid)
         uncaught == thrown /\ tryCatch("thrown") = "thrown"
     IN /\ daemon' = IF cmd.alive /\ isPidAlive(cmd.pid)
                     THEN [daemon EXCEPT ![cmd.pid] = sigterm(@)]
                     ELSE daemon
        /\ hidden' = sessionOf(daemon', hidden)
        /\ IF uncaught
           THEN /\ UNCHANGED <<statusFile, tmux>>
                /\ stopDone([cmd EXCEPT !.pc = "done", !.exit = "1"], "error")
           ELSE /\ cmd' = [cmd EXCEPT !.pc = "hascheck"]
                /\ UNCHANGED <<statusFile, tmux, cmdLog, quiet, inRow, snap>>
  /\ UNCHANGED <<orch, runs, cmds>>
  /\ UNCHANGED serverVars
  /\ UNCHANGED nameVars
  /\ UNCHANGED appVars
  /\ UNCHANGED moreVars

\* sessionExists('_agentdeck')
StopHasSession ==
  /\ cmd.pc = "hascheck"
  /\ cmd' = [cmd EXCEPT !.pc = "killsession",
                        !.exists = sessionExists(TmuxOf(tmux, hidden), "_agentdeck")]
  /\ UNCHANGED <<tmux, statusFile, daemon, hidden, orch, cmdLog, quiet, inRow, snap, runs, cmds>>
  /\ UNCHANGED serverVars
  /\ UNCHANGED nameVars
  /\ UNCHANGED appVars
  /\ UNCHANGED moreVars

\* try { tmux kill-session -t _agentdeck } catch {}: tmux fails when the session has
\* gone since the check; the process in the session gets SIGHUP and ends
StopKillSession ==
  /\ cmd.pc = "killsession"
  /\ LET tm == TmuxOf(tmux, hidden)
         there == sessionExists(tm, "_agentdeck")
         thrown == cmd.exists /\ ~there
         uncaught == thrown /\ tryCatch("thrown") = "thrown"
         after == IF cmd.exists /\ there THEN killSession(tm, "_agentdeck") ELSE tm
     IN /\ tmux' = after.visible
        /\ hidden' = after.hidden
        /\ daemon' = IF hidden # NoPid /\ after.hidden = NoPid
                     THEN [daemon EXCEPT ![hidden] = "dead"]
                     ELSE daemon
        /\ IF uncaught
           THEN /\ UNCHANGED statusFile
                /\ stopDone([cmd EXCEPT !.pc = "done", !.exit = "1"], "error")
           ELSE /\ cmd' = [cmd EXCEPT !.pc = "delete"]
                /\ UNCHANGED <<statusFile, cmdLog, quiet, inRow, snap>>
  /\ UNCHANGED <<orch, runs, cmds>>
  /\ UNCHANGED serverVars
  /\ UNCHANGED nameVars
  /\ UNCHANGED appVars
  /\ UNCHANGED moreVars

\* deleteStatus(), the last lines of stopCommand, process.exit(0)
StopDelete ==
  /\ cmd.pc = "delete"
  /\ statusFile' = deleteStatus(statusFile)
  /\ UNCHANGED <<tmux, daemon, hidden>>
  /\ stopDone([cmd EXCEPT !.pc = "done", !.exit = "0"], "stopped")
  /\ UNCHANGED <<orch, runs, cmds>>
  /\ UNCHANGED serverVars
  /\ UNCHANGED nameVars
  /\ UNCHANGED appVars
  /\ UNCHANGED moreVars

\* ---- agentdeck status ----

\* statusCommand
StatusCmd ==
  /\ cmd.pc \in {"idle", "done"}
  /\ cmds < MaxCmds
  /\ cmds' = cmds + 1
  /\ LET out == IF statusFile = NoStatus THEN "not running"
                ELSE IF ~isPidAlive(statusFile.pid) THEN "not running (stale)"
                ELSE "running"
     IN /\ statusFile' = IF out = "not running (stale)" THEN deleteStatus(statusFile)
                         ELSE statusFile
        /\ cmdLog' = logged(cmdLog, [cmd |-> "status", out |-> out,
                                     sawRecord |-> statusFile # NoStatus,
                                     hiddenAtStart |-> hidden # NoPid,
                                     hiddenAtEnd |-> hidden # NoPid,
                                     alone |-> cmd.from = position,
                                     exit |-> "0"])
  /\ disturb
  /\ UNCHANGED <<tmux, daemon, hidden, orch, cmd, runs>>
  /\ UNCHANGED serverVars
  /\ UNCHANGED nameVars
  /\ UNCHANGED appVars
  /\ UNCHANGED moreVars

\* no daemon and no status file; a status file that has outlived its daemon (the
\* machine was restarted); or a daemon an earlier invocation started
InitFiles ==
  /\ InitNames
  /\ \/ /\ statusFile \in {NoStatus, writeStatus(StalePid)}
        /\ daemon = [p \in Pids |-> "none"]
        /\ hidden = NoPid
     \/ /\ statusFile = writeStatus("p1")
        /\ daemon = [p \in Pids |-> IF p = "p1" THEN "ready" ELSE "none"]
        /\ hidden = "p1"
  /\ orch = NoOrch
  /\ cmd = NoCmd
  /\ cmdLog = <<>>
  /\ quiet = FALSE
  /\ inRow = 0
  /\ snap = <<NoStatus, [p \in Pids |-> "none"], NoPid, <<>>>>
  /\ runs = 0
  /\ cmds = 0

InitStart == authDisabled = FALSE /\ build = Current /\ tmux \in Listings /\ InitServer /\ InitFiles

DaemonStartup ==
  \/ \E p \in Pids, inUse \in BOOLEAN : DaemonListen(p, inUse)
  \/ \E p \in Pids : DaemonFatal(p)
  \/ \E p \in Pids : DaemonReady(p)

Orchestrator ==
  \/ OrchStart
  \/ OrchReadStatus
  \/ \E ok \in BOOLEAN : OrchHealth(ok)
  \/ OrchSpawn
  \/ OrchPollOk
  \/ OrchPollTimeout
  \/ OrchCreateSession

(* SpecStart: invocations of the orchestrator and the daemons they start.    *)

NextStart == DaemonStartup \/ Orchestrator

SpecStart == InitStart /\ [][NextStart]_vars

\* SIGTERM sent to a daemon by anything other than `agentdeck stop`: kill, the
\* service manager, the machine going down
Signal(p) ==
  /\ daemon[p] \in {"starting", "tunnel", "ready"}
  /\ daemon' = [daemon EXCEPT ![p] = sigterm(@)]
  /\ hidden' = sessionOf(daemon', hidden)
  /\ disturb
  /\ UNCHANGED <<tmux, statusFile, orch, cmd, cmdLog, runs, cmds>>
  /\ UNCHANGED serverVars
  /\ UNCHANGED nameVars
  /\ UNCHANGED appVars
  /\ UNCHANGED moreVars

(* SpecSignal: invocations of the orchestrator, the daemons they start, and  *)
(* termination signals sent to the daemons at any time.                      *)

NextSignal ==
  \/ DaemonStartup
  \/ \E p \in Pids : DaemonShutdown(p)
  \/ \E p \in Pids : DaemonExit(p)
  \/ \E p \in Pids : Signal(p)
  \/ Orchestrator

SpecSignal == InitStart /\ [][NextSignal]_vars

(* SpecStop: the same with invocations of stop and status from another       *)
(* terminal, and the daemon's shutdown.                                      *)

NextStop ==
  \/ DaemonStartup
  \/ \E p \in Pids : DaemonShutdown(p)
  \/ \E p \in Pids : DaemonExit(p)
  \/ Orchestrator
  \/ StopRead
  \/ StopPidCheck
  \/ StopKill
  \/ StopHasSession
  \/ StopKillSession
  \/ StopDelete
  \/ StatusCmd

SpecStop == InitStart /\ [][NextStop]_vars

----------------------------------------------------------------------------
(* Auto-naming (nextSessionName, lib/tmux.js) and step 2 of the orchestrator *)
(* (bin/cli.js).  A session name is a string of characters; tmux is a set of *)
(* names.  Each call of tmux is a step: other terminals and the user act     *)
(* between the listing an invocation reads and the session it creates.       *)

Digits == <<"0", "1", "2", "3", "4", "5", "6", "7", "8", "9">>

isDigit(ch) == \E d \in 1..Len(Digits) : Digits[d] = ch

digitValue(ch) == (CHOOSE d \in 1..Len(Digits) : Digits[d] = ch) - 1

\* parseInt(m[1], 10) of a string of digits
RECURSIVE parseInt(_)
parseInt(ds) ==
  IF ds = <<>> THEN 0
  ELSE 10 * parseInt(SubSeq(ds, 1, Len(ds) - 1)) + digitValue(ds[Len(ds)])

\* `${n}` of a number
RECURSIVE toString(_)
toString(n) ==
  IF n < 10 THEN <<Digits[n + 1]>>
  ELSE toString(n \div 10) \o <<Digits[(n % 10) + 1]>>

\* one character of a pattern against one character: '.' stands for any
matchesChar(pc, ch) == pc = "." \/ pc = ch

\* name.match(new RegExp(`^${prefix}-(\\d+)$`)): the digits matched, <<>> if none.
\* The prefix goes into the pattern as it is.
matchDigits(pre, name) ==
  LET k == Len(pre)
  IN IF /\ Len(name) >= k + 2
        /\ \A j \in 1..k : matchesChar(pre[j], name[j])
        /\ name[k + 1] = "-"
        /\ \A j \in (k + 2)..Len(name) : isDigit(name[j])
     THEN SubSeq(name, k + 2, Len(name))
     ELSE <<>>

\* listSessions({ includeHidden }) on the names
listNames(reg, includeHidden) ==
  IF includeHidden THEN reg ELSE {nm \in reg : nm = <<>> \/ nm[1] # "_"}

\* the loop of nextSessionName: max over the sessions that match
maxOf(pre, sessions) ==
  LET nums == {parseInt(matchDigits(pre, nm)) : nm \in {x \in sessions : matchDigits(pre, x) # <<>>}}
  IN IF nums = {} THEN 0 ELSE CHOOSE n \in nums : \A m \in nums : m <= n

\* nextSessionName(prefix)
nextSessionNameOf(pre, reg) ==
  pre \o <<"-">> \o toString(maxOf(pre, listNames(reg, TRUE)) + 1)

SafeChars == {"a", "b", "c", "x", "-", "_"} \cup {Digits[d] : d \in 1..Len(Digits)}

\* shellEscape: str.replace(/[^a-zA-Z0-9_-]/g, '')
RECURSIVE shellEscape(_)
shellEscape(str) ==
  IF str = <<>> THEN <<>>
  ELSE (IF Head(str) \in SafeChars THEN <<Head(str)>> ELSE <<>>) \o shellEscape(Tail(str))

\* the catch of step 2 that counts a collision at the first attempt as a session made
catchOutcomeNoRetry(attempt, duplicate) ==
  IF attempt = 0 THEN "created"
  ELSE IF attempt < 2 /\ duplicate THEN "retry"
  ELSE "failed"

\* the catch block of the retry loop: what the invocation does after an error of
\* createSession or attachSession at the given attempt
catchOutcome(attempt, duplicate) ==
  IF attempt < 2 /\ duplicate THEN "retry"
  ELSE IF attempt = 0 THEN "created"
  ELSE "failed"

\* an invocation reaches step 2: nextSessionName(agent) is its first call
StepStart(i) ==
  /\ inv[i].pc \in {"idle", "done", "failed"}
  /\ starts < MaxStarts
  /\ starts' = starts + 1
  /\ inv' = [inv EXCEPT ![i] = [NoInv EXCEPT !.pc = "compute"]]
  /\ UNCHANGED <<prefix, registry, made, freed>>
  /\ UNCHANGED <<tmux, cliVars, serverVars, appVars, moreVars>>

\* nextSessionName(agent), before the loop and at each later attempt
Compute(i) ==
  /\ inv[i].pc = "compute"
  /\ inv' = [inv EXCEPT ![i].pc = "create",
                        ![i].name = nextSessionNameOf(prefix, registry),
                        ![i].num = maxOf(prefix, listNames(registry, TRUE)) + 1,
                        ![i].fresh = TRUE,
                        ![i].reused = \E nm \in freed :
                                         /\ matchDigits(prefix, nm) # <<>>
                                         /\ parseInt(matchDigits(prefix, nm))
                                              = maxOf(prefix, listNames(registry, TRUE)) + 1]
  /\ UNCHANGED <<prefix, registry, made, freed, starts>>
  /\ UNCHANGED <<tmux, cliVars, serverVars, appVars, moreVars>>

\* createSession(name, agent): tmux new-session -d -s shellEscape(name); tmux refuses
\* a name it has ("duplicate session") and execSync throws
CreateSession(i) ==
  /\ inv[i].pc = "create"
  /\ LET target == shellEscape(inv[i].name)
         r == [inv[i] EXCEPT !.calls = @ + 1]
     IN IF target \in registry
        THEN LET outcome == catchOutcome(r.attempt, TRUE)
                 c == [r EXCEPT !.collisions = @ + 1, !.fresh = FALSE]
             IN /\ inv' = [inv EXCEPT ![i] =
                      IF outcome = "retry"
                      THEN [c EXCEPT !.pc = "compute", !.attempt = @ + 1]
                      ELSE IF outcome = "created"
                      THEN [c EXCEPT !.pc = "done", !.created = TRUE, !.exit = "0"]
                      ELSE [c EXCEPT !.pc = "failed", !.exit = "1"]]
                /\ UNCHANGED <<registry, made>>
        ELSE /\ registry' = registry \cup {target}
             /\ made' = Append(made, [num |-> r.num, reused |-> r.reused])
             /\ inv' = [inv EXCEPT ![i] = [r EXCEPT !.pc = "attach", !.got = target]]
  /\ UNCHANGED <<prefix, freed, starts>>
  /\ UNCHANGED <<tmux, cliVars, serverVars, appVars, moreVars>>

\* createSession(name, agent) fails for another reason than a name tmux has (tmux
\* cannot start its server, cannot fork, or rejects the command line): execSync throws
\* an error whose message has no "duplicate" in it
CreateSessionError(i) ==
  /\ inv[i].pc = "create"
  /\ LET r == [inv[i] EXCEPT !.calls = @ + 1, !.broke = TRUE, !.fresh = FALSE]
         outcome == catchOutcome(r.attempt, FALSE)
     IN inv' = [inv EXCEPT ![i] =
           IF outcome = "created"
           THEN [r EXCEPT !.pc = "done", !.created = TRUE, !.exit = "0"]
           ELSE [r EXCEPT !.pc = "failed", !.exit = "1"]]
  /\ UNCHANGED <<prefix, registry, made, freed, starts>>
  /\ UNCHANGED <<tmux, cliVars, serverVars, appVars, moreVars>>

\* attachSession(name) returns when the user detaches, or throws
AttachSession(i, ok) ==
  /\ inv[i].pc = "attach"
  /\ LET outcome == IF ok THEN "created" ELSE catchOutcome(inv[i].attempt, FALSE)
     IN inv' = [inv EXCEPT ![i] =
           IF outcome = "created"
           THEN [@ EXCEPT !.pc = "done", !.created = TRUE, !.exit = "0"]
           ELSE [@ EXCEPT !.pc = "failed", !.exit = "1"]]
  /\ UNCHANGED <<prefix, registry, made, freed, starts>>
  /\ UNCHANGED <<tmux, cliVars, serverVars, appVars, moreVars>>

\* a session ends: its program exits, or the user kills it with tmux
SessionEnds(nm) ==
  /\ nm \in registry
  /\ registry' = registry \ {nm}
  /\ freed' = freed \cup {nm}
  /\ UNCHANGED <<prefix, inv, made, starts>>
  /\ UNCHANGED <<tmux, cliVars, serverVars, appVars, moreVars>>

EndSession == \E nm \in registry : SessionEnds(nm)

\* names with the prefix given
Named(pre, ds) == pre \o <<"-">> \o ds

Prefixes == { <<"a">>, <<"_", "a">>, <<"a", ".", "b">> }

NameUniverse ==
  { Named(<<"a">>, <<"1">>), Named(<<"a">>, <<"3">>), Named(<<"a">>, <<"0", "7">>),
    Named(<<"a">>, <<"1", "2">>), Named(<<"a">>, <<"2", "x">>), Named(<<"b">>, <<"5">>),
    Named(<<"_", "a">>, <<"4">>), Named(<<"a", "x", "b">>, <<"6">>),
    Named(<<"a", "b">>, <<"2">>) }

(* SpecName: nextSessionName on any prefix and any set of sessions.          *)

InitName ==
  /\ authDisabled = FALSE /\ build = Current /\ tmux = <<>> /\ InitServer
  /\ statusFile = NoStatus /\ daemon = [p \in Pids |-> "none"] /\ hidden = NoPid
  /\ orch = NoOrch /\ cmd = NoCmd /\ cmdLog = <<>> /\ quiet = FALSE /\ inRow = 0
  /\ snap = NoSnap /\ runs = 0 /\ cmds = 0
  /\ prefix \in Prefixes
  /\ registry \in SUBSET NameUniverse
  /\ inv = [i \in Terminals |-> IF i = "t1" THEN [NoInv EXCEPT !.pc = "compute"] ELSE NoInv]
  /\ made = <<>>
  /\ freed = {}
  /\ starts = 1

NextName == \E i \in Terminals : Compute(i)

SpecName == InitName /\ [][NextName]_vars

(* SpecRace: invocations in two terminals in their session-creation step,    *)
(* and sessions ending.                                                      *)

InitRace ==
  /\ authDisabled = FALSE /\ build = Current /\ tmux = <<>> /\ InitServer
  /\ statusFile = NoStatus /\ daemon = [p \in Pids |-> "none"] /\ hidden = NoPid
  /\ orch = NoOrch /\ cmd = NoCmd /\ cmdLog = <<>> /\ quiet = FALSE /\ inRow = 0
  /\ snap = NoSnap /\ runs = 0 /\ cmds = 0
  /\ prefix \in {<<"a">>, <<"a", ".", "b">>}
  /\ registry \in {{}, {Named(<<"a">>, <<"1">>), Named(<<"a">>, <<"3">>)}}
  /\ inv = [i \in Terminals |-> NoInv]
  /\ made = <<>>
  /\ freed = {}
  /\ starts = 0

NextRace ==
  \/ \E i \in Terminals : StepStart(i)
  \/ \E i \in Terminals : Compute(i)
  \/ \E i \in Terminals : CreateSession(i)
  \/ \E i \in Terminals, ok \in BOOLEAN : AttachSession(i, ok)
  \/ EndSession

SpecRace == InitRace /\ [][NextRace]_vars

(* SpecCreate: the same invocations, where createSession can also fail for *)
(* another reason than a name tmux has.                                    *)

NextCreate ==
  \/ \E i \in Terminals : StepStart(i)
  \/ \E i \in Terminals : Compute(i)
  \/ \E i \in Terminals : CreateSession(i)
  \/ \E i \in Terminals : CreateSessionError(i)
  \/ \E i \in Terminals, ok \in BOOLEAN : AttachSession(i, ok)
  \/ EndSession

SpecCreate == InitRace /\ [][NextCreate]_vars

----------------------------------------------------------------------------
(* Two default invocations started in two terminals while no daemon runs:  *)
(* each runs orchestrator() in a process of its own, on the same status    *)
(* record, the same tmux server and the same port.  The daemon binds its   *)
(* port within the health wait of the invocation that started it.          *)

\* orchestrator() is entered
TwinStart(i) ==
  /\ twin[i].pc = "idle"
  /\ \A p \in Pids : daemon[p] = "none"
  /\ twin' = [twin EXCEPT ![i] = [NoOrch EXCEPT !.pc = "check", !.before = tmux]]
  /\ UNCHANGED <<tmux, statusFile, daemon, hidden>>
  /\ disturb
  /\ UNCHANGED <<orch, cmd, cmdLog, runs, cmds, wait, push>>
  /\ UNCHANGED serverVars
  /\ UNCHANGED nameVars
  /\ UNCHANGED appVars

\* isServerRunning up to the health request
TwinReadStatus(i) ==
  /\ twin[i].pc = "check"
  /\ IF statusFile = NoStatus
     THEN /\ twin' = [twin EXCEPT ![i].pc = afterCheck("NO_DAEMON"), ![i].result = "NO_DAEMON"]
          /\ UNCHANGED statusFile
     ELSE IF ~isPidAlive(statusFile.pid)
     THEN /\ twin' = [twin EXCEPT ![i].pc = afterCheck("NO_DAEMON"), ![i].present = TRUE,
                                  ![i].result = "NO_DAEMON"]
          /\ statusFile' = deleteStatus(statusFile)
     ELSE /\ twin' = [twin EXCEPT ![i].pc = "health", ![i].present = TRUE, ![i].alive = TRUE]
          /\ UNCHANGED statusFile
  /\ UNCHANGED <<tmux, daemon, hidden>>
  /\ disturb
  /\ UNCHANGED <<orch, cmd, cmdLog, runs, cmds, wait, push>>
  /\ UNCHANGED serverVars
  /\ UNCHANGED nameVars
  /\ UNCHANGED appVars

\* isServerRunning from the result of checkHealth
TwinHealth(i, ok) ==
  /\ twin[i].pc = "health"
  /\ ok => healthy
  /\ IF ok
     THEN /\ twin' = [twin EXCEPT ![i].pc = afterCheck("HEALTHY"), ![i].health = "ok",
                                  ![i].result = "HEALTHY", ![i].probes = @ + 1]
          /\ UNCHANGED statusFile
     ELSE /\ twin' = [twin EXCEPT ![i].pc = afterCheck("NO_DAEMON"), ![i].health = "failed",
                                  ![i].result = "NO_DAEMON"]
          /\ statusFile' = deleteStatus(statusFile)
  /\ UNCHANGED <<tmux, daemon, hidden>>
  /\ disturb
  /\ UNCHANGED <<orch, cmd, cmdLog, runs, cmds, wait, push>>
  /\ UNCHANGED serverVars
  /\ UNCHANGED nameVars
  /\ UNCHANGED appVars

\* createSession('_agentdeck', serverCmd): tmux refuses a duplicate session, execSync
\* throws, and orchestrator().catch prints "Fatal" and exits 1
TwinSpawn(i) ==
  /\ twin[i].pc = "spawn"
  /\ sessionExists(TmuxOf(tmux, hidden), "_agentdeck") \/ \E p \in Pids : daemon[p] = "none"
  /\ IF sessionExists(TmuxOf(tmux, hidden), "_agentdeck")
     THEN /\ twin' = [twin EXCEPT ![i].pc = "failed", ![i].exit = "1", ![i].why = "error"]
          /\ UNCHANGED <<daemon, hidden>>
     ELSE LET p == CHOOSE q \in Pids : daemon[q] = "none" /\ (q = "p1" \/ daemon["p1"] # "none")
          IN /\ daemon' = [daemon EXCEPT ![p] = "starting"]
             /\ hidden' = p
             /\ twin' = [twin EXCEPT ![i].pc = "poll", ![i].spawned = p, ![i].spawns = @ + 1]
  /\ UNCHANGED <<tmux, statusFile>>
  /\ disturb
  /\ UNCHANGED <<orch, cmd, cmdLog, runs, cmds, wait, push>>
  /\ UNCHANGED serverVars
  /\ UNCHANGED nameVars
  /\ UNCHANGED appVars

\* waitForServer: a poll succeeds
TwinPollOk(i) ==
  /\ twin[i].pc = "poll"
  /\ healthy
  /\ twin' = [twin EXCEPT ![i].pc = "session", ![i].probes = @ + 1]
  /\ UNCHANGED <<tmux, statusFile, daemon, hidden>>
  /\ disturb
  /\ UNCHANGED <<orch, cmd, cmdLog, runs, cmds, wait, push>>
  /\ UNCHANGED serverVars
  /\ UNCHANGED nameVars
  /\ UNCHANGED appVars

\* step 2 and 3: createSession(nextSessionName(agent)), attach, the user detaches
TwinCreateSession(i) ==
  /\ twin[i].pc = "session"
  /\ LET name == nextSessionName(tmux)
     IN /\ tmux' = Append(tmux, Entry(name, isClaudeSession(name)))
        /\ twin' = [twin EXCEPT ![i].pc = "done", ![i].created = name, ![i].exit = "0"]
  /\ UNCHANGED <<statusFile, daemon, hidden>>
  /\ disturb
  /\ UNCHANGED <<orch, cmd, cmdLog, runs, cmds, wait, push>>
  /\ UNCHANGED serverVars
  /\ UNCHANGED nameVars
  /\ UNCHANGED appVars

InitTwin ==
  /\ authDisabled = FALSE /\ build = Current /\ tmux \in Listings /\ InitServer
  /\ InitNames
  /\ statusFile \in {NoStatus, writeStatus(StalePid)}
  /\ daemon = [p \in Pids |-> "none"] /\ hidden = NoPid
  /\ orch = NoOrch /\ cmd = NoCmd /\ cmdLog = <<>> /\ quiet = FALSE /\ inRow = 0
  /\ snap = NoSnap /\ runs = 0 /\ cmds = 0

NextTwin ==
  \/ \E i \in Terminals : TwinStart(i)
  \/ \E i \in Terminals : TwinReadStatus(i)
  \/ \E i \in Terminals, ok \in BOOLEAN : TwinHealth(i, ok)
  \/ \E i \in Terminals : TwinSpawn(i)
  \/ \E i \in Terminals : TwinPollOk(i)
  \/ \E i \in Terminals : TwinCreateSession(i)
  \/ \E p \in Pids : DaemonListen(p, FALSE)
  \/ \E p \in Pids : DaemonReady(p)

SpecTwin == InitTwin /\ [][NextTwin]_vars

----------------------------------------------------------------------------
(* Recovery: `agentdeck stop` and then `agentdeck`, run from a state with   *)
(* no status record and a daemon in the hidden session.  The state is left *)
(* by an invocation that spawned the daemon and has gone before the record *)
(* was written, or whose state check deleted the record of a live daemon   *)
(* after a health request that failed or timed out.                        *)

InitRecover ==
  /\ authDisabled = FALSE /\ build = Current /\ tmux \in Listings /\ InitServer
  /\ InitNames
  /\ statusFile = NoStatus
  /\ \E phase \in {"starting", "tunnel", "ready"} :
       daemon = [p \in Pids |-> IF p = "p1" THEN phase ELSE "none"]
  /\ hidden = "p1"
  /\ orch = NoOrch /\ cmd = NoCmd /\ cmdLog = <<>> /\ quiet = FALSE /\ inRow = 0
  /\ snap = NoSnap /\ runs = 0 /\ cmds = 0

\* the one `agentdeck stop`
RecoverStop == cmds = 0 /\ StopRead

\* the default invocation, started when the stop has completed
RecoverStart == cmd.pc = "done" /\ OrchStart

NextRecover ==
  \/ RecoverStop
  \/ StopPidCheck
  \/ StopKill
  \/ StopHasSession
  \/ StopKillSession
  \/ StopDelete
  \/ RecoverStart
  \/ OrchReadStatus
  \/ \E ok \in BOOLEAN : OrchHealth(ok)
  \/ OrchSpawn
  \/ OrchPollOk
  \/ OrchCreateSession
  \/ \E p \in Pids : DaemonListen(p, FALSE)
  \/ \E p \in Pids : DaemonReady(p)

SpecRecover == InitRecover /\ [][NextRecover]_vars

----------------------------------------------------------------------------
(* Web Push (lib/push.js): subscribe is synchronous; sendNotification maps *)
(* the list it finds to one delivery each, awaits them all, and then       *)
(* filters this.subscriptions by the indexes of the deliveries that failed *)
(* with 404 or 410.  Other calls run while it awaits.                      *)

\* subscriptions.findIndex(s => s.endpoint === subscription.endpoint); 0 for -1
findIndex(list, e) ==
  IF \E i \in 1..Len(list) : list[i] = e
  THEN CHOOSE i \in 1..Len(list) : list[i] = e /\ \A j \in 1..(i - 1) : list[j] # e
  ELSE 0

\* subscribe: the list after it
subscribe(list, e) ==
  IF findIndex(list, e) > 0 THEN [list EXCEPT ![findIndex(list, e)] = e] ELSE Append(list, e)

\* this.subscriptions.filter((_, i) => !failed.includes(i)), indexes from 1
RECURSIVE filterFrom(_, _, _)
filterFrom(list, failed, i) ==
  IF i > Len(list) THEN <<>>
  ELSE (IF i \in failed THEN <<>> ELSE <<list[i]>>) \o filterFrom(list, failed, i + 1)

filter(list, failed) == filterFrom(list, failed, 1)

Range(list) == {list[i] : i \in 1..Len(list)}

\* POST /api/subscribe, or a push_subscribe message of a viewer
Subscribe(e) ==
  /\ push' = [push EXCEPT !.subscriptions = subscribe(@, e),
                          !.gone = IF e \in Range(push.subscriptions) THEN @ ELSE @ \ {e}]
  /\ UNCHANGED <<tmux, cliVars, serverVars, nameVars, appVars, wait, twin>>

\* sendNotification up to its await: nothing to do with no subscriptions, else one
\* delivery per entry of the list as it is now
SendNotification(k) ==
  /\ push.calls[k].pc \in {"idle", "done"}
  /\ push' = [push EXCEPT !.calls[k] =
       IF Len(push.subscriptions) = 0 THEN [NoCall EXCEPT !.pc = "done"]
       ELSE [pc |-> "await", subs |-> push.subscriptions,
             pending |-> 1..Len(push.subscriptions), failed |-> {}]]
  /\ UNCHANGED <<tmux, cliVars, serverVars, nameVars, appVars, wait, twin>>

\* one webpush.sendNotification settles: delivered, refused with 404 or 410, or
\* failed otherwise
Deliveries == {"ok", "gone", "error"}

Settle(k, i, outcome) ==
  /\ push.calls[k].pc = "await"
  /\ i \in push.calls[k].pending
  /\ push' = [push EXCEPT !.calls[k].pending = @ \ {i},
                          !.calls[k].failed = IF outcome = "gone" THEN @ \cup {i} ELSE @,
                          !.gone = IF outcome = "gone" /\ push.calls[k].subs[i] \in Range(push.subscriptions)
                                   THEN @ \cup {push.calls[k].subs[i]} ELSE @]
  /\ UNCHANGED <<tmux, cliVars, serverVars, nameVars, appVars, wait, twin>>

\* Promise.allSettled resolves: the expired subscriptions are removed
SendSettled(k) ==
  /\ push.calls[k].pc = "await"
  /\ push.calls[k].pending = {}
  /\ push' = [push EXCEPT !.calls[k].pc = "done",
                          !.subscriptions = IF push.calls[k].failed # {}
                                            THEN filter(@, push.calls[k].failed) ELSE @]
  /\ UNCHANGED <<tmux, cliVars, serverVars, nameVars, appVars, wait, twin>>

NextPush ==
  \/ \E e \in Endpoints : Subscribe(e)
  \/ \E k \in Senders : SendNotification(k)
  \/ \E k \in Senders, i \in 1..Cardinality(Endpoints), outcome \in Deliveries : Settle(k, i, outcome)
  \/ \E k \in Senders : SendSettled(k)

SpecPush == Init /\ [][NextPush]_vars

----------------------------------------------------------------------------
(* The browser page (public/app.js): what it does with the messages of its  *)
(* connection.                                                              *)

\* Array.prototype.join(','): the names with a comma between them
RECURSIVE join(_)
join(names) ==
  IF names = <<>> THEN <<>>
  ELSE IF Len(names) = 1 THEN <<names[1]>>
  ELSE <<names[1], ",">> \o join(Tail(names))

\* the options the picker is given: one per session, or 'No sessions'
options(names) == IF names = <<>> THEN <<"No sessions">> ELSE names

\* a handleSessions that rebuilds the picker for every message
handleSessionsAlways(pg, msg) ==
  [pg EXCEPT !.lastSessionList = join(msg.data), !.picker = options(msg.data),
             !.rebuilds = @ + 1]

\* handleSessions: skips the rebuild if the joined names are those of the last message
handleSessions(pg, msg) ==
  IF join(msg.data) = pg.lastSessionList THEN pg
  ELSE [pg EXCEPT !.lastSessionList = join(msg.data), !.picker = options(msg.data),
                  !.rebuilds = @ + 1]

\* ws.onmessage and handleMessage: the page takes the next message of its connection;
\* the handlers of the other types act on the terminal widget, which is not state here
OnMessage(c) ==
  /\ page[c].handled < Len(inbox[c])
  /\ LET msg == inbox[c][page[c].handled + 1]
         pg == [page[c] EXCEPT !.handled = @ + 1]
     IN page' = [page EXCEPT ![c] = IF msg.type = "sessions" THEN handleSessions(pg, msg)
                                     ELSE pg]
  /\ UNCHANGED <<tmux, app, cliVars, serverVars, nameVars, moreVars>>

\* sessions are created and ended by their users, outside the server
TmuxChange ==
  /\ events < MaxEvents
  /\ events' = events + 1
  /\ tmux' \in Listings \ {tmux}
  /\ UNCHANGED <<authDisabled, presented, ws, closeCode, clients, sessionName, inbox, stopped, subInfo>>
  /\ UNCHANGED bridgeVars
  /\ UNCHANGED hookVars
  /\ UNCHANGED gateVars
  /\ UNCHANGED cliVars
  /\ UNCHANGED nameVars
  /\ UNCHANGED appVars
  /\ UNCHANGED moreVars

(* The page's connection (public/app.js, sections 2 and 4).  In `app`:       *)
(* screen is the one shown, sock the readyState of state.ws ("none": null),  *)
(* timers the number of pending setTimeout(connect) calls, closed the code   *)
(* of the last close event handled.  History: exhausted (a close found the   *)
(* attempts used up), sinceOpen and sinceReset (reconnects scheduled since   *)
(* the last open, and since the last open or return to the foreground).      *)

maxReconnectAttempts == 15
CloseCodes == {1000, 1006, 1008, 4001}

\* connect(): nothing if the socket is open, else a new WebSocket in place of the old
connect(a) == IF a.sock = "OPEN" THEN a ELSE [a EXCEPT !.sock = "CONNECTING"]

\* an auth-failure test that knows 4001 only
isAuthFailureOnly4001(a, code) == code = 4001

\* onclose: e.code === 1008 || e.code === 4001 || (!state.hasConnected && e.code !== 1000)
isAuthFailure(a, code) == code = 1008 \/ code = 4001 \/ (~a.hasConnected /\ code # 1000)

\* state.ws.onclose
onclose(a, code) ==
  LET b == [a EXCEPT !.sock = "CLOSED", !.closed = code]
  IN IF isAuthFailure(a, code)
     THEN [b EXCEPT !.token = NULL, !.screen = "auth"]
     ELSE IF a.reconnectAttempts < maxReconnectAttempts
          THEN [b EXCEPT !.reconnectAttempts = @ + 1, !.timers = @ + 1,
                         !.sinceOpen = @ + 1, !.sinceReset = @ + 1]
          ELSE [b EXCEPT !.exhausted = TRUE]

\* state.ws.onopen
onopen(a) == [a EXCEPT !.sock = "OPEN", !.reconnectAttempts = 0, !.hasConnected = TRUE,
                       !.sinceOpen = 0, !.sinceReset = 0]

\* init(): the app with the token of localStorage if there is one, else the PIN screen
PageLoad(cached) ==
  /\ app.screen = "none"
  /\ app' = IF cached THEN connect([app EXCEPT !.token = "token", !.screen = "app"])
            ELSE [app EXCEPT !.screen = "auth"]
  /\ UNCHANGED <<tmux, page, cliVars, serverVars, nameVars, moreVars>>

\* authenticate(pin) with the right PIN: token stored, stale socket dropped with its
\* handlers, showApp() and connect().  A wrong PIN changes nothing but the error shown.
Authenticate ==
  /\ app.screen = "auth" /\ app.pins < MaxPins
  /\ app' = connect([app EXCEPT !.token = "token", !.sock = "none", !.hasConnected = FALSE,
                                !.reconnectAttempts = 0, !.screen = "app",
                                !.pins = @ + 1])
  /\ UNCHANGED <<tmux, page, cliVars, serverVars, nameVars, moreVars>>

\* the socket opens
WsOpen ==
  /\ app.sock = "CONNECTING"
  /\ app' = onopen(app)
  /\ UNCHANGED <<tmux, page, cliVars, serverVars, nameVars, moreVars>>

\* the socket closes: a connection that never opened closes with 1006, an open one
\* with the code the server gave or 1006
WsClose(code) ==
  /\ \/ app.sock = "CONNECTING" /\ code = 1006
     \/ app.sock = "OPEN"
  /\ app' = onclose(app, code)
  /\ UNCHANGED <<tmux, page, cliVars, serverVars, nameVars, moreVars>>

\* a setTimeout(connect, delay) comes due
TimerFires ==
  /\ app.timers > 0
  /\ app' = connect([app EXCEPT !.timers = @ - 1])
  /\ UNCHANGED <<tmux, page, cliVars, serverVars, nameVars, moreVars>>

\* visibilitychange to visible while the socket is not open
Foreground ==
  /\ app.screen # "none" /\ app.sock # "OPEN" /\ app.foregrounds < MaxForegrounds
  /\ app' = connect([app EXCEPT !.reconnectAttempts = 0, !.sinceReset = 0,
                                !.foregrounds = @ + 1])
  /\ UNCHANGED <<tmux, page, cliVars, serverVars, nameVars, moreVars>>

(* SpecClient: one page, from its load on, with a server that accepts,       *)
(* rejects, closes or is away as it pleases.                                 *)

NextClient ==
  \/ \E cached \in BOOLEAN : PageLoad(cached)
  \/ Authenticate
  \/ WsOpen
  \/ \E code \in CloseCodes : WsClose(code)
  \/ TimerFires
  \/ Foreground

SpecClient == Init /\ [][NextClient]_vars

(* SpecRefresh: viewers connect, the refresh interval ticks, sessions come   *)
(* and go in tmux, and the pages handle what they are sent.                  *)

NextRefresh ==
  \/ \E c \in Conns : HandleUpgrade(c, hmac(Secret, Pin))
  \/ RefreshTick
  \/ TmuxChange
  \/ \E c \in Conns : OnMessage(c)
  \/ \E c \in Conns : PeerClose(c)
  \/ \E c \in Conns : SocketClosed(c)

SpecRefresh == Init /\ [][NextRefresh]_vars

(* SpecInput: viewers type while sessions end and are attached to again.     *)

Keys == {"x", "y"}

NextInput ==
  \/ \E c \in Conns : HandleUpgrade(c, hmac(Secret, Pin))
  \/ \E c \in Conns, s \in Names : Attach(c, s)
  \/ \E c \in Conns, data \in Keys : Input(c, data)
  \/ \E s \in Names : PtyExit(s, "0")
  \/ \E c \in Conns : PeerClose(c)
  \/ \E c \in Conns : SocketClosed(c)

SpecInput == Init /\ [][NextInput]_vars

----------------------------------------------------------------------------
(* The orchestrator's startup waits (bin/cli.js waitForServer and            *)
(* waitForTunnel).  Time is counted in poll intervals of 500 ms.  In `wait`: *)
(* elapsed is Date.now() - start of the wait under way, last the result of   *)
(* the last health probe, got what the wait resolved with; up says whether a *)
(* daemon answers /api/health and record what status.json holds ("none": no  *)
(* file, "nourl": tunnelUrl null, "url").  History: probes, and late (the    *)
(* wait ended on its bound).                                                 *)

HealthTimeout == 40   \* waitForServer(cfg.port, 20000)
TunnelTimeout == 30   \* waitForTunnel(15000)
FirstCheck == 2       \* setTimeout(poll, 1000)
ProbeTimes == {0, 6}  \* a probe answers at once or goes to its own timeout of 3000 ms
Delays == {1, 2}      \* setTimeout(poll, 500) fires on time or late
ClockCap == 50        \* the clock is not counted further: both bounds are below it

plus(e, d) == IF e + d > ClockCap THEN ClockCap ELSE e + d

\* a bound that is never found to have passed
expiredNever(elapsed, timeout) == FALSE

\* Date.now() - start > timeout
expired(elapsed, timeout) == elapsed > timeout

\* createSession('_agentdeck', serverCmd) has returned: waitForServer is called
WaitStart ==
  /\ wait.pc = "idle"
  /\ wait' = [wait EXCEPT !.pc = "health", !.elapsed = 0]
  /\ UNCHANGED <<tmux, cliVars, serverVars, nameVars, appVars, push, twin>>

\* waitForServer, one run of poll: past the bound it resolves false and the
\* orchestrator exits 1; else a probe, after which it resolves true (and
\* waitForTunnel starts its clock and its first timer) or sets the next timer
HealthPoll(ok, took, delay) ==
  /\ wait.pc = "health"
  /\ ok => wait.up
  /\ IF expired(wait.elapsed, HealthTimeout)
     THEN wait' = [wait EXCEPT !.pc = "failed", !.got = "false", !.late = TRUE]
     ELSE IF ok
     THEN wait' = [wait EXCEPT !.pc = "tunnel", !.probes = @ + 1, !.last = "ok",
                               !.elapsed = FirstCheck]
     ELSE wait' = [wait EXCEPT !.probes = @ + 1, !.last = "failed",
                               !.elapsed = plus(plus(@, took), delay)]
  /\ UNCHANGED <<tmux, cliVars, serverVars, nameVars, appVars, push, twin>>

\* waitForTunnel, one run of poll
TunnelPoll(delay) ==
  /\ wait.pc = "tunnel"
  /\ IF expired(wait.elapsed, TunnelTimeout)
     THEN wait' = [wait EXCEPT !.pc = "done", !.got = wait.record, !.late = TRUE]
     ELSE IF wait.record = "url"
     THEN wait' = [wait EXCEPT !.pc = "done", !.got = "url"]
     ELSE wait' = [wait EXCEPT !.elapsed = plus(@, delay)]
  /\ UNCHANGED <<tmux, cliVars, serverVars, nameVars, appVars, push, twin>>

\* the daemon starts or stops answering
HealthChange ==
  /\ wait.pc \in {"health", "tunnel"}
  /\ wait' = [wait EXCEPT !.up = ~@]
  /\ UNCHANGED <<tmux, cliVars, serverVars, nameVars, appVars, push, twin>>

\* the daemon writes its record, with or without a URL, or the record is deleted
RecordChange(r) ==
  /\ wait.pc \in {"health", "tunnel"}
  /\ r # wait.record
  /\ wait' = [wait EXCEPT !.record = r]
  /\ UNCHANGED <<tmux, cliVars, serverVars, nameVars, appVars, push, twin>>

(* SpecWait: the two waits of one invocation, with the daemon and its record *)
(* changing as they please; the timers of the waits come due.                *)

Waiting ==
  \/ WaitStart
  \/ \E ok \in BOOLEAN, took \in ProbeTimes, delay \in Delays : HealthPoll(ok, took, delay)
  \/ \E delay \in Delays : TunnelPoll(delay)

NextWait ==
  \/ Waiting
  \/ HealthChange
  \/ \E r \in {"none", "nourl", "url"} : RecordChange(r)

SpecWait == Init /\ [][NextWait]_vars /\ WF_vars(Waiting)

----------------------------------------------------------------------------
(* Properties *)

RECURSIVE terminalMsgs(_)
terminalMsgs(seq) ==
  IF seq = <<>> THEN <<>>
  ELSE (IF Head(seq).type \in {"terminal_catchup", "terminal_output"}
        THEN <<Head(seq)>> ELSE <<>>) \o terminalMsgs(Tail(seq))

\* the terminal messages c was sent since its current subscription
SinceSub(c) == terminalMsgs(SubSeq(inbox[c], subInfo[c].start + 1, Len(inbox[c])))

Has(seq, m) == \E i \in 1..Len(seq) : seq[i] = m
HasType(seq, type) == \E i \in 1..Len(seq) : seq[i].type = type

LastN(seq, k) == SubSeq(seq, Len(seq) - k + 1, Len(seq))
Min(a, b) == IF a < b THEN a ELSE b

\* C1: a subscribed viewer's terminal messages since its subscription start with one
\* catch-up carrying the whole buffer as it stood at the subscription (nothing when
\* the buffer was empty), followed only by live chunks produced after the
\* subscription, in production order; a catch-up never follows a live chunk.
C1_CatchupBeforeLive ==
  \A c \in Conns :
    subInfo[c].name # NULL =>
      LET m == SinceSub(c)
          b == subInfo[c].buf
      IN /\ b # <<>> => Len(m) >= 1 /\ m[1] = terminalOutput(toStringUtf8(b), TRUE, 0)
         /\ \A i \in 1..Len(m) :
              /\ m[i].type = "terminal_catchup" => i = 1 /\ b # <<>>
              /\ m[i].type = "terminal_output" =>
                   /\ m[i].n > subInfo[c].n
                   /\ i > 1 /\ m[i-1].type = "terminal_output" => m[i-1].n < m[i].n

C1_Witness ==
  \E c, d \in Conns :
    /\ c # d /\ subInfo[c].name # NULL /\ subInfo[c].name = subInfo[d].name
    /\ subInfo[d].buf # <<>>
    /\ Len(SinceSub(d)) >= 2
    /\ SinceSub(d)[1].type = "terminal_catchup" /\ SinceSub(d)[2].type = "terminal_output"
    /\ Len(SinceSub(c)) >= 2

\* C2: the catch-up buffer of every Bridge holds at most bufferSize bytes.
C2_BufferBounded == \A s \in Names : Len(terminals[s].buffer) <= BufferSize

C2_Witness ==
  \E s \in Names : Len(terminals[s].buffer) = BufferSize /\ Len(produced[s]) > BufferSize

\* C3: the catch-up buffer of a Bridge is the last min(total, bufferSize) bytes of
\* everything its PTYs produced, in production order.
C3_BufferIsTail ==
  \A s \in Names :
    terminals[s].exists =>
      terminals[s].buffer = LastN(produced[s], Min(Len(produced[s]), BufferSize))

\* a viewer that stayed subscribed saw the PTY exit and then a chunk of the PTY
\* created again, and more than bufferSize bytes were produced
C3_Witness ==
  \E s \in Names, c \in Conns :
    /\ subInfo[c].name = s /\ terminals[s].exists /\ exits[s] >= 1
    /\ Len(produced[s]) > BufferSize
    /\ \E i, j \in (subInfo[c].start + 1)..Len(inbox[c]) :
         /\ i < j
         /\ inbox[c][i].type = "notification" /\ inbox[c][i].data[1] = "Session ended"
         /\ inbox[c][j].type = "terminal_output"

\* C4: a step that unsubscribes a viewer from a Bridge leaves the Bridge's PTY handle
\* as it was, whatever the number of subscribers left; a live handle is cleared only
\* by the exit of its process (or by the shutdown of the server, which kills it).
C4_DetachKeepsPty ==
  [][\A s \in Names :
       /\ (terminals[s].ptyProcess /\ ~terminals'[s].ptyProcess)
            => (exits'[s] = exits[s] + 1 \/ stopped')
       /\ ((\E c \in Conns : c \in terminals[s].clients /\ c \notin terminals'[s].clients)
             /\ ~stopped')
            => terminals'[s].ptyProcess = terminals[s].ptyProcess]_vars

C4_Witness ==
  \E s \in Names, c \in Conns :
    /\ terminals[s].ptyProcess /\ terminals[s].clients = {}
    /\ ws[c] = "CLOSED" /\ Has(inbox[c], attached(s))

\* the chunk of a step in which a PTY of s produced one
ChunkOf(s, data) == nOut'[s] = nOut[s] + 1 /\ produced'[s] = produced[s] \o Utf8(data)

\* C5: a chunk produced by a Bridge is sent to no viewer that has detached from it
\* or whose connection has closed (its socket is no longer open, whether or not the
\* close handler has run yet), and to every other viewer subscribed to the Bridge.
C5_DetachedGetNothing ==
  [][\A s \in Names, data \in Chunks :
       ChunkOf(s, data) =>
         \A c \in Conns :
           /\ (sessionName[c] # s \/ ws[c] # "OPEN") => inbox'[c] = inbox[c]
           /\ (sessionName[c] = s /\ ws[c] = "OPEN") =>
                inbox'[c] = Append(inbox[c], terminalOutput(data, FALSE, nOut'[s]))]_vars

\* c subscribed to s before any output, detached, and the other viewer then got chunk 1
C5_Witness ==
  \E s \in Names, c, d \in Conns :
    /\ c # d /\ sessionName[c] = NULL /\ sessionName[d] = s
    /\ inbox[c] = <<sessionsList(tmux), attached(s), detached>>
    /\ inbox[d] # <<>>
    /\ inbox[d][Len(inbox[d])].type = "terminal_output" /\ inbox[d][Len(inbox[d])].n = 1

Loopback == {"127.0.0.1", "::1", "::ffff:127.0.0.1"}

\* C6: a permission request posted from loopback is answered 200 with the "ask"
\* decision, whatever viewers are connected.
C6_PermissionAsks ==
  (hookReq.type = "PermissionRequest" /\ hookReq.addr \in Loopback)
    => hookResp = [status |-> 200, body |-> AskDecision]

C6_Witness ==
  /\ hookReq.type = "PermissionRequest" /\ hookResp.body = AskDecision
  /\ \E c, d \in Conns :
       /\ c # d /\ HasType(inbox[c], "notification")
       /\ ws[d] \in {"CLOSING", "CLOSED"} /\ ~HasType(inbox[d], "notification")

Index(seq, e) == CHOOSE i \in 1..Len(seq) : seq[i] = e

\* C7: for a permission request the response precedes the forward: the forwarding
\* callback is called only after the response has been returned.
C7_RespondBeforeForward ==
  (hookReq.type = "PermissionRequest" /\ Has(hookTrace, "forward"))
    => (Has(hookTrace, "respond") /\ Index(hookTrace, "respond") < Index(hookTrace, "forward"))

\* C8: whatever fails while the event is forwarded, the caller of /api/hook gets the
\* response of its event.
C8_FailuresSwallowed ==
  hookReq.addr \in Loopback =>
    /\ hookResp.status = 200
    /\ hookReq.type = "PermissionRequest" => hookResp.body = AskDecision
    /\ hookReq.type = "Notification" => hookResp.body = EmptyAck

C8_Witness ==
  /\ hookReq.addr \in Loopback /\ hookReq.failing = Failures
  /\ hookReq.type = "PermissionRequest" /\ hookResp.status = 200
  /\ \E c \in Conns : ws[c] = "CLOSING" /\ c \in clients

\* C9: a hook request from an address that is not loopback is answered 403 and
\* forwards nothing: no callback, no message to a viewer, no dispatch.
C9_RemoteHookRejected ==
  [][(hooks' = hooks + 1 /\ hookReq'.addr \notin Loopback) =>
       /\ hookResp'.status = 403
       /\ hookTrace' = <<>>
       /\ inbox' = inbox /\ dispatched' = dispatched /\ ws' = ws]_vars

C9_Witness ==
  /\ hookReq.addr = "::ffff:192.168.1.7" /\ hookReq.type = "PermissionRequest"
  /\ hookResp.status = 403
  /\ \E c \in Conns : c \in clients /\ ws[c] = "OPEN" /\ ~HasType(inbox[c], "notification")

C11_GateGuardsEntryPoints ==
  ~authDisabled =>
    /\ \A s \in Names : \A i \in 1..Len(ptyInput[s]) :
         validateToken(authDisabled, ptyInput[s][i].cred)
    /\ (httpReq.path = "/api/sessions" /\ httpResp.status = 200)
         => validateToken(authDisabled, httpReq.cred)
    /\ \A c \in Conns : HasType(inbox[c], "sessions")
         => validateToken(authDisabled, presented[c])

\* C12: with auth enabled /api/auth issues a token iff the submitted credential is the
\* configured PIN, and answers 401 to every other request, an absent credential
\* included; with auth disabled it issues a token to every request.
C12_IssueIffExactPin ==
  httpReq.path = "/api/auth" =>
    IF authDisabled THEN httpResp.status = 200
    ELSE /\ httpResp.status = 200 <=> httpReq.body = Pin
         /\ httpReq.body # Pin => httpResp.status = 401

\* C13: with auth enabled, the token issued for the PIN validates, and a presented
\* token validates only if it is that token.
C13_OnlyIssuedTokenValidates ==
  ~authDisabled =>
    /\ \A i \in issued : i.secret = secret => validateToken(authDisabled, i.token)
    /\ (httpReq.path = "/api/sessions" /\ httpResp.status = 200)
         => httpReq.cred = hmac(secret, Pin)

\* C14: with auth enabled, no token issued by an earlier process validates in the
\* running one, and a request presenting one is answered 401.
C14_RestartInvalidatesTokens ==
  ~authDisabled =>
    \A i \in issued :
      i.secret # secret =>
        /\ ~validateToken(authDisabled, i.token)
        /\ (httpReq.path = "/api/sessions" /\ httpReq.cred = i.token)
             => httpResp.status = 401

\* a token of the first process was refused by the second, which has issued its own
C14_Witness ==
  /\ ~authDisabled /\ secret = Secrets[2]
  /\ [token |-> hmac(Secrets[1], Pin), secret |-> Secrets[1]] \in issued
  /\ [token |-> hmac(Secrets[2], Pin), secret |-> Secrets[2]] \in issued
  /\ httpReq.path = "/api/sessions" /\ httpReq.cred = hmac(Secrets[1], Pin)
  /\ httpResp.status = 401

\* C15: the orchestrator's check returns HEALTHY exactly when the status record was
\* present, its pid alive and the health request succeeded; when it returns NO_DAEMON
\* and a record was present, the record is deleted in the step in which it returns.
\* The record and the pid are those the check read.
C15_HealthyIffAllThree ==
  [][ /\ (orch.pc = "check" /\ orch'.pc # "check") =>
           /\ orch'.present = (statusFile # NoStatus)
           /\ orch'.alive = (statusFile # NoStatus /\ isPidAlive(statusFile.pid))
      /\ (orch.result = "none" /\ orch'.result # "none") =>
           /\ orch'.result \in {"HEALTHY", "NO_DAEMON"}
           /\ (orch'.result = "HEALTHY") =
                (orch'.present /\ orch'.alive /\ orch'.health = "ok")
           /\ (orch'.result = "NO_DAEMON" /\ orch'.present) => statusFile' = NoStatus
    ]_vars

\* the check found a record whose process is alive, and the health request failed
C15_Witness ==
  /\ orch.result = "NO_DAEMON"
  /\ orch.present /\ orch.alive /\ orch.health = "failed"
  /\ orch.pc = "spawn"
  /\ statusFile = NoStatus

C17_StatusAfterStop ==
  \A i \in 1..(Len(cmdLog) - 1) :
    (cmdLog[i].cmd = "stop" /\ cmdLog[i + 1].cmd = "status"
       /\ cmdLog[i + 1].alone)
      => (cmdLog[i + 1].out = "not running" /\ ~cmdLog[i + 1].sawRecord)

\* C18: every stop exits with code 0, and a stop that follows a stop with no step of
\* any other process between them leaves the status file, the daemons, the hidden
\* session and the user sessions as the first left them.
C18_StopIdempotentExitZero ==
  /\ \A i \in 1..Len(cmdLog) : cmdLog[i].cmd = "stop" => cmdLog[i].exit = "0"
  /\ (quiet /\ inRow >= 2) => State = snap

\* two stops in a row, the first of which found a record and a hidden session
C18_Witness ==
  /\ quiet /\ inRow = 2
  /\ Len(cmdLog) >= 2
  /\ cmdLog[Len(cmdLog) - 1].out = "stopped"
  /\ cmdLog[Len(cmdLog) - 1].hiddenAtStart
  /\ cmdLog[Len(cmdLog)].out = "not running"

\* C19: a stop that began while the hidden session _agentdeck existed completes with
\* no hidden session, whether or not there is a status record. The stops are those
\* during which no orchestrator took a step, so that no new hidden session was made.
C19_StopEndsHiddenSession ==
  \A i \in 1..Len(cmdLog) :
    (cmdLog[i].cmd = "stop" /\ cmdLog[i].hiddenAtStart /\ cmdLog[i].alone)
      => ~cmdLog[i].hiddenAtEnd

\* C20: no step removes a user session, and the steps of stop leave the user
\* sessions as they are.
C20_UserSessionsKept ==
  [][ /\ Len(tmux') >= Len(tmux)
      /\ \A i \in 1..Len(tmux) : tmux'[i] = tmux[i]
      /\ (cmd' # cmd) => tmux' = tmux
    ]_vars

\* a stop has ended a live daemon and its hidden session with user sessions present
C20_Witness ==
  /\ cmd.pc = "done"
  /\ hidden = NoPid
  /\ Len(tmux) >= 2
  /\ \E i \in 1..Len(cmdLog) :
       cmdLog[i].out = "stopped" /\ cmdLog[i].hiddenAtStart /\ ~cmdLog[i].hiddenAtEnd

\* the numbers n for which a session named P-n exists, P taken letter for letter
NumbersOf(pre, reg) ==
  { parseInt(SubSeq(nm, Len(pre) + 2, Len(nm))) :
      nm \in { x \in reg : /\ Len(x) >= Len(pre) + 2
                           /\ SubSeq(x, 1, Len(pre) + 1) = pre \o <<"-">>
                           /\ \A j \in (Len(pre) + 2)..Len(x) : isDigit(x[j]) } }

MaxNumber(pre, reg) ==
  IF NumbersOf(pre, reg) = {} THEN 0
  ELSE CHOOSE n \in NumbersOf(pre, reg) : \A m \in NumbersOf(pre, reg) : m <= n

\* C21: for every prefix P and every set of sessions, hidden ones included, the name
\* generated is P-(max+1), max the largest n for which a session named P-n exists and
\* 0 when there is none.
C21_NameIsMaxPlusOne ==
  \A i \in Terminals :
    (inv[i].pc = "create" /\ inv[i].attempt = 0 /\ inv[i].calls = 0) =>
      inv[i].name = Named(prefix, toString(MaxNumber(prefix, registry) + 1))

\* C22: with sessions created under generated names and sessions ending in any
\* order, the numbers of the names created increase, and no name is created under a
\* number that a session which has ended had.  Stated for a prefix of letters.
C22_NumbersNeverReused ==
  prefix = <<"a">> =>
    /\ \A j, k \in 1..Len(made) : j < k => made[j].num < made[k].num
    /\ \A j \in 1..Len(made) : ~made[j].reused

\* C23: in the session-creation step a collision is followed by a new attempt under
\* a name computed after it; an invocation calls createSession at most 3 times, and
\* one whose 3 calls all collided has failed with exit code 1; a collision is never
\* taken for a session made; and while no session has ended, two invocations that
\* have made their sessions have made them under different names.
C23_CollisionRetried ==
  \A i \in Terminals :
    /\ inv[i].calls <= 3
    /\ inv[i].pc = "create" => inv[i].fresh
    /\ (inv[i].collisions >= 1 /\ inv[i].collisions < 3) => inv[i].pc # "failed" \/ inv[i].got # NoName
    /\ inv[i].collisions = 3 => (inv[i].pc = "failed" /\ inv[i].exit = "1" /\ inv[i].got = NoName)
    /\ inv[i].pc = "failed" => inv[i].exit = "1"
    /\ (inv[i].pc = "done" /\ inv[i].collisions >= 1) =>
         (inv[i].got # NoName /\ inv[i].got = shellEscape(inv[i].name))
    /\ \A j \in Terminals \ {i} :
         (freed = {} /\ inv[i].got # NoName /\ inv[j].got # NoName) => inv[i].got # inv[j].got

\* both terminals have their session; one of them collided with the other's name and
\* made its own at the second attempt
C23_Witness ==
  /\ prefix = <<"a">>
  /\ freed = {}
  /\ inv["t1"].pc = "done" /\ inv["t2"].pc = "done"
  /\ inv["t1"].collisions = 1 /\ inv["t1"].attempt = 1
  /\ inv["t2"].collisions = 0
  /\ inv["t1"].got # inv["t2"].got
  /\ {inv["t1"].got, inv["t2"].got} \subseteq registry

\* C24: the step in which the PTY of a Bridge exits clears the handle and leaves the
\* buffer and the subscribers as they were; every subscriber whose socket is open is
\* sent one notification with the session name and the exit code, nobody else is sent
\* anything; and a step that makes the handle live again keeps the buffer and the
\* subscribers, who are sent the chunks that follow (C5).
C24_ExitKeepsBridge ==
  [][\A s \in Names :
       /\ exits'[s] = exits[s] + 1 =>
            /\ terminals[s].ptyProcess /\ ~terminals'[s].ptyProcess
            /\ terminals'[s].exists
            /\ terminals'[s].buffer = terminals[s].buffer
            /\ terminals'[s].clients = terminals[s].clients
            /\ \E code \in ExitCodes :
                 \A c \in Conns :
                   inbox'[c] = IF c \in terminals[s].clients /\ ws[c] = "OPEN"
                               THEN Append(inbox[c],
                                           Msg("notification", <<"Session ended", s, code>>, 0))
                               ELSE inbox[c]
       /\ (terminals[s].exists /\ ~terminals[s].ptyProcess /\ terminals'[s].ptyProcess) =>
            /\ terminals'[s].buffer = terminals[s].buffer
            /\ terminals[s].clients \subseteq terminals'[s].clients
    ]_vars

\* c was subscribed when the PTY exited and got the notification; another viewer's
\* attach made the handle live again, and c got the chunk produced after that
C24_Witness ==
  \E s \in Names, c, d \in Conns :
    /\ c # d /\ exits[s] = 1 /\ terminals[s].ptyProcess
    /\ {c, d} \subseteq terminals[s].clients
    /\ subInfo[c].name = s
    /\ \E i, j \in 1..Len(inbox[c]) :
         /\ subInfo[c].start < i /\ i < j
         /\ inbox[c][i].type = "notification" /\ inbox[c][i].data[2] = s
         /\ inbox[c][j].type = "terminal_output"
    /\ ~HasType(inbox[d], "notification")

\* C25: a step that sends a viewer `attached` for S leaves it subscribed to the
\* Bridge of S, which exists with a live handle, and to no other Bridge, with S as
\* its session name; nothing but catch-up (after the session list, on a new
\* connection) and the reply is sent to it, and nothing to anybody else; and a viewer becomes a subscriber of S only in such a step.
\* This is so for the names tmux does not have as well.
InTmux(s) == \E i \in 1..Len(tmux) : tmux[i].name = s

Replied(c, s) ==
  /\ Len(inbox'[c]) > Len(inbox[c])
  /\ inbox'[c][Len(inbox'[c])] = attached(s)

C25_AttachSwitchesBridge ==
  [][\A c \in Conns, s \in Names :
       /\ Replied(c, s) =>
            /\ terminals'[s].exists /\ terminals'[s].ptyProcess
            /\ c \in terminals'[s].clients
            /\ \A r \in Names \ {s} : c \notin terminals'[r].clients
            /\ sessionName'[c] = s
            /\ \A i \in (Len(inbox[c]) + 1)..(Len(inbox'[c]) - 1) :
                 inbox'[c][i].type \in {"sessions", "terminal_catchup"}
            /\ \A d \in Conns \ {c} : inbox'[d] = inbox[d]
       /\ (c \in terminals'[s].clients /\ c \notin terminals[s].clients) => Replied(c, s)
    ]_vars

\* a viewer attached to `main` asked for a name tmux does not have, and then for
\* the same name again
C25_Witness ==
  \E c \in Conns, s \in Names :
    /\ ~InTmux(s) /\ InTmux("main") /\ s # "main"
    /\ terminals["main"].exists /\ c \notin terminals["main"].clients
    /\ c \in terminals[s].clients /\ sessionName[c] = s
    /\ \E i, j, k \in 1..Len(inbox[c]) :
         /\ i < j /\ j < k /\ k = Len(inbox[c])
         /\ inbox[c][i] = attached("main")
         /\ inbox[c][j] = attached(s) /\ inbox[c][k] = attached(s)

\* C26: the step that opens a connection sends it the session list first; if a
\* listed session is flagged it ends attached to a flagged one, else if a session
\* is listed to the first one, else to none; attached means subscribed to that
\* Bridge with `attached` as the last message sent.
Flagged(listing) == { listing[i].name : i \in { j \in 1..Len(listing) : listing[j].isClaude } }

C26_OpenListsThenAttaches ==
  [][\A c \in Conns :
       (ws[c] = "none" /\ ws'[c] = "OPEN") =>
         /\ Len(inbox'[c]) >= 1 /\ inbox'[c][1] = sessionsList(tmux)
         /\ IF Len(tmux) = 0
            THEN /\ sessionName'[c] = NULL /\ Len(inbox'[c]) = 1
                 /\ \A s \in Names : c \notin terminals'[s].clients
            ELSE /\ sessionName'[c] # NULL
                 /\ IF Flagged(tmux) # {} THEN sessionName'[c] \in Flagged(tmux)
                                          ELSE sessionName'[c] = tmux[1].name
                 /\ c \in terminals'[sessionName'[c]].clients
                 /\ inbox'[c][Len(inbox'[c])] = attached(sessionName'[c])
    ]_vars

\* C27 as stated: a step that sends a connection a `sessions` message after an
\* earlier one sends a list of names that differs from the one last sent to it.
SessionsAt(seq) == { i \in 1..Len(seq) : seq[i].type = "sessions" }
LastSessions(seq) == seq[CHOOSE i \in SessionsAt(seq) : \A j \in SessionsAt(seq) : j <= i]

C27_TickSendsOnlyChanges ==
  [][\A c \in Conns :
       (/\ Len(inbox'[c]) = Len(inbox[c]) + 1
        /\ inbox'[c][Len(inbox'[c])].type = "sessions"
        /\ SessionsAt(inbox[c]) # {})
       => inbox'[c][Len(inbox'[c])].data # LastSessions(inbox[c]).data
    ]_vars

\* C27 amended: every tick sends the session list to every viewer whose socket is
\* open, changed or not; the page rebuilds its picker for a `sessions` message iff
\* the joined names differ from those of the last one it handled (the empty string
\* before the first), and otherwise leaves the picker as it is.
C27_TickSendsAlwaysPageSkips ==
  [][/\ (events' = events + 1 /\ tmux' = tmux) =>
          \A c \in Conns :
            inbox'[c] = IF c \in clients /\ ws[c] = "OPEN"
                        THEN Append(inbox[c], sessionsList(tmux)) ELSE inbox[c]
     /\ \A c \in Conns :
          page'[c].handled = page[c].handled + 1 =>
            LET msg == inbox[c][page'[c].handled]
            IN IF msg.type = "sessions" /\ join(msg.data) # page[c].lastSessionList
               THEN /\ page'[c].rebuilds = page[c].rebuilds + 1
                    /\ page'[c].picker = options(msg.data)
                    /\ page'[c].lastSessionList = join(msg.data)
               ELSE /\ page'[c].rebuilds = page[c].rebuilds
                    /\ page'[c].picker = page[c].picker
                    /\ page'[c].lastSessionList = page[c].lastSessionList
    ]_vars

\* two ticks sent a page the list it already had; it rebuilt its picker once, for
\* the list sent when the connection opened
C27_Witness ==
  \E c \in Conns :
    /\ Len(tmux) = 2
    /\ Len(inbox[c]) >= 4 /\ page[c].handled = Len(inbox[c])
    /\ Cardinality(SessionsAt(inbox[c])) = 3
    /\ \A i \in SessionsAt(inbox[c]) : inbox[c][i] = sessionsList(tmux)
    /\ page[c].rebuilds = 1 /\ page[c].picker = <<"main", "claude-1">>

\* C28: a step that handles a viewer's input appends it to the input of the PTY of
\* the viewer's Bridge iff that Bridge has a live handle, and otherwise changes
\* nothing; no other step, an attach that starts a new PTY included, adds to the
\* input of any PTY.
InputStep == events' = events + 1 /\ exits' = exits /\ inbox' = inbox

C28_InputOnlyToLiveHandle ==
  [][/\ InputStep =>
          \E c \in clients, data \in Keys :
            /\ ws[c] = "OPEN"
            /\ ptyInput' =
                 IF sessionName[c] # NULL /\ terminals[sessionName[c]].ptyProcess
                 THEN [ptyInput EXCEPT ![sessionName[c]] =
                         Append(@, [data |-> data, cred |-> presented[c]])]
                 ELSE ptyInput
     /\ ~InputStep => ptyInput' = ptyInput
     /\ UNCHANGED terminals \/ ptyInput' = ptyInput
    ]_vars

\* the PTY of a viewer's session exited, the viewer typed, and then attached again:
\* the new PTY is live and has been given nothing
C28_Witness ==
  \E s \in Names :
    /\ ws["c1"] = "OPEN" /\ ws["c2"] = "none" /\ sessionName["c1"] = s
    /\ events = 3 /\ exits[s] = 1 /\ \A r \in Names \ {s} : exits[r] = 0
    /\ Cardinality({ i \in 1..Len(inbox["c1"]) : inbox["c1"][i] = attached(s) }) = 2
    /\ terminals[s].ptyProcess
    /\ \A r \in Names : ptyInput[r] = <<>>

\* C29 as stated: the step in which the page handles a close with code 4001 or 1008
\* leaves it without token, on the PIN screen, with no timer added; a timer is added
\* only by a close with another code; and the reconnects scheduled since the last
\* open never exceed 15.
CloseStep == app.sock # "CLOSED" /\ app'.sock = "CLOSED"
Rejected(code) == code \in {4001, 1008}

C29_RejectedNoRetryAtMost15 ==
  [][/\ (CloseStep /\ Rejected(app'.closed)) =>
          /\ app'.token = NULL /\ app'.screen = "auth"
          /\ app'.timers = app.timers
     /\ app'.timers > app.timers =>
          /\ CloseStep /\ ~Rejected(app'.closed)
          /\ app'.timers = app.timers + 1
     /\ app'.sinceOpen <= maxReconnectAttempts
    ]_vars

\* C29 amended: as above, with the reconnects counted since the last open or the
\* last return of the page to the foreground.
C29_RejectedNoRetryAtMost15PerReset ==
  [][/\ (CloseStep /\ Rejected(app'.closed)) =>
          /\ app'.token = NULL /\ app'.screen = "auth"
          /\ app'.timers = app.timers
     /\ app'.timers > app.timers =>
          /\ CloseStep /\ ~Rejected(app'.closed)
          /\ app'.timers = app.timers + 1
     /\ app'.sinceReset <= maxReconnectAttempts
    ]_vars

\* fifteen reconnects were scheduled and failed, the next close scheduled none; the
\* page came back to the foreground, connected, and was closed with a rejection code
C29_Witness ==
  /\ app.exhausted /\ app.foregrounds = 1
  /\ app.sock = "CLOSED" /\ Rejected(app.closed)
  /\ app.token = NULL /\ app.screen = "auth" /\ app.timers = 0

C31_RecordGoneAfterSignal ==
  [][/\ (statusFile' # statusFile /\ statusFile' # NoStatus) =>
          (statusFile'.pid \in Pids /\ daemon'[statusFile'.pid] \in {"tunnel", "ready"})
     /\ \A p \in Pids :
          (daemon[p] # "dead" /\ daemon'[p] = "dead") => statusFile' # writeStatus(p)
    ]_vars

\* C32: both waits end.  The health wait ends with true at the first probe that
\* succeeds, or with false once more than its bound has passed, after at most one
\* probe per poll interval; the URL wait ends with a record that carries a URL, or,
\* once more than its bound has passed, with whatever the record is then.
C32_WaitsTerminate ==
  /\ [](/\ wait.probes <= HealthTimeout + 1
        /\ wait.pc = "failed" => (wait.late /\ wait.last # "ok" /\ wait.elapsed > HealthTimeout)
        /\ wait.pc \in {"tunnel", "done"} => wait.last = "ok"
        /\ wait.pc = "done" =>
             IF wait.late THEN wait.elapsed > TunnelTimeout /\ wait.got = wait.record
             ELSE wait.got = "url")
  /\ <>(wait.pc \in {"done", "failed"})

\* the health wait succeeded after probes that failed, and the URL wait ended on
\* its bound with a record that has no URL
C32_Witness ==
  /\ wait.pc = "done" /\ wait.late /\ wait.got = "nourl"
  /\ wait.probes > 1

Count(seq, e) == Cardinality({i \in 1..Len(seq) : seq[i] = e})

\* a hook request from loopback whose event is a permission request or a notification
RelayStep ==
  /\ hooks' = hooks + 1
  /\ hookReq'.addr \in Loopback
  /\ hookReq'.type \in {"PermissionRequest", "Notification"}

\* the callback is called once; each registered viewer whose socket is OPEN and takes
\* the send gets exactly one notification message, no other viewer gets anything; a
\* notification is answered with the empty object
ForwardedOnce ==
  /\ Count(hookTrace', "forward") = 1
  /\ \A c \in Conns :
       IF c \in clients /\ ws[c] = "OPEN" /\ "ws" \notin hookReq'.failing
       THEN /\ Len(inbox'[c]) = Len(inbox[c]) + 1
            /\ SubSeq(inbox'[c], 1, Len(inbox[c])) = inbox[c]
            /\ inbox'[c][Len(inbox'[c])].type = "notification"
       ELSE inbox'[c] = inbox[c]
  /\ hookReq'.type = "Notification" => hookResp' = [status |-> 200, body |-> EmptyAck]

OtherStep ==
  /\ hooks' = hooks + 1
  /\ hookReq'.addr \in Loopback
  /\ hookReq'.type \notin {"PermissionRequest", "Notification"}

\* C34 (as stated): an event of any other shape is forwarded through the forwarding
\* callback and answered with the empty acknowledgment.
C34_OtherForwardedEmptyAck ==
  [][OtherStep =>
       /\ Count(hookTrace', "forward") = 1
       /\ hookResp' = [status |-> 200, body |-> EmptyAck]
    ]_vars

\* C34 (amended): an event of any other shape is not forwarded: no callback is called,
\* no viewer is sent a message, nothing is dispatched or stored, and the answer is an
\* error object, "Missing hook type" for an event without a type and "Unknown hook
\* type" for any other.
C34_OtherAnsweredWithError ==
  [][OtherStep =>
       /\ hookTrace' = <<"respond">>
       /\ inbox' = inbox /\ dispatched' = dispatched /\ ws' = ws
       /\ recentRequests' = recentRequests
       /\ hookResp'.status = 200
       /\ hookResp'.body = IF hookReq'.type = "undefined" THEN "error: Missing hook type"
                           ELSE "error: Unknown hook type"
    ]_vars

\* an event of an unknown type arrived while a viewer was open, and was answered
\* with the error
C34_Witness ==
  /\ hookReq.addr \in Loopback /\ hookReq.type = "Stop"
  /\ hookResp = [status |-> 200, body |-> "error: Unknown hook type"]
  /\ \E c \in clients : ws[c] = "OPEN" /\ ~HasType(inbox[c], "notification")

\* C35: a session name has at most one Bridge and a Bridge at most one live PTY, the
\* one its handle holds; a step that leaves a Bridge with a live handle in place
\* (an attach, a detach, output, a close) spawns no PTY for it and keeps its buffer
\* and its handle, whatever attaches, detaches and exits came before.
C35_OnePtyPerBridge ==
  /\ [](\A s \in Names :
          /\ terminals[s].ptys <= 1
          /\ terminals[s].ptyProcess <=> terminals[s].ptys = 1
          /\ ~terminals[s].exists => (~terminals[s].ptyProcess /\ terminals[s].clients = {}))
  /\ [][\A s \in Names :
          /\ (terminals[s].ptyProcess /\ terminals'[s].ptyProcess) =>
               /\ terminals'[s].ptys = terminals[s].ptys
               /\ Len(terminals'[s].buffer) >= Len(terminals[s].buffer)
                    \/ Len(terminals'[s].buffer) = BufferSize
          /\ (terminals[s].exists /\ ~stopped') => terminals'[s].exists
          /\ terminals'[s].ptys > terminals[s].ptys =>
               /\ ~terminals[s].ptyProcess
               /\ \E c \in Conns : sessionName'[c] = s /\ c \in terminals'[s].clients
       ]_vars

\* a second viewer attached to a name whose Bridge had a live handle, after an exit
\* and a respawn on that name
C35_Witness ==
  \E s \in Names, c, d \in Conns :
    /\ c # d /\ {c, d} \subseteq terminals[s].clients
    /\ exits[s] >= 1 /\ terminals[s].ptyProcess /\ terminals[s].ptys = 1

\* C36: while the server runs, a viewer is in the subscriber set of the Bridge of a
\* name exactly when it is registered, its connection has not closed, and its
\* current session name is that name; so a viewer is in at most one subscriber set
\* and a closed connection is in none.
C36_SubscribersConsistent ==
  ~stopped =>
    /\ \A s \in Names, c \in Conns :
         c \in terminals[s].clients <=>
           (c \in clients /\ ws[c] \in {"OPEN", "CLOSING"} /\ sessionName[c] = s)
    /\ \A c \in Conns : Cardinality({s \in Names : c \in terminals[s].clients}) <= 1
    /\ \A c \in Conns : ws[c] \in {"none", "CLOSED"} =>
         (c \notin clients /\ \A s \in Names : c \notin terminals[s].clients)

\* a viewer that had switched from one name to another has closed, while another
\* viewer stays subscribed to the name it left
C36_Witness ==
  \E c, d \in Conns, s, t \in Names :
    /\ c # d /\ s # t /\ ~stopped
    /\ ws[c] = "CLOSED" /\ Has(inbox[c], attached(s)) /\ Has(inbox[c], attached(t))
    /\ d \in terminals[s].clients /\ terminals[t].exists /\ terminals[t].clients = {}

\* C37: of two default invocations started while no daemon runs, exactly one spawns
\* a daemon and neither exits with an error; each that has finished has seen the
\* daemon healthy and has created a user session of its own.
C37_TwinStartOneDaemon ==
  /\ Cardinality({p \in Pids : daemon[p] # "none"}) <= 1
  /\ \A i \in Terminals : twin[i].pc # "failed" /\ twin[i].exit # "1"
  /\ \A i \in Terminals : twin[i].pc = "done" =>
       (twin[i].probes >= 1 /\ twin[i].created # NULL)
  /\ (\A i \in Terminals : twin[i].pc = "done") =>
       /\ Cardinality({p \in Pids : daemon[p] # "none"}) = 1
       /\ twin["t1"].created # twin["t2"].created

\* C38: from a state with no status record and a daemon in the hidden session, a
\* default invocation started after a completed `stop` does not exit with an error,
\* and when it has finished it has seen the daemon healthy and created a user session.
C38_RecoversAfterStop ==
  /\ orch.pc # "failed" /\ orch.exit # "1"
  /\ orch.pc = "done" => (orch.probes >= 1 /\ orch.created # NULL)

\* C39: an invocation ends its session step with "created" and exit code 0 only if
\* one of its createSession calls succeeded, and one whose createSession failed with
\* an error other than a name collision ends with exit code 1.
C39_CreatedOnlyIfMade ==
  \A i \in Terminals :
    /\ (inv[i].created \/ inv[i].exit = "0") => inv[i].got # NoName
    /\ inv[i].broke => (inv[i].pc = "failed" /\ inv[i].exit = "1" /\ ~inv[i].created)

\* C40: whatever sendNotification and subscribe calls interleave, the subscription
\* list never holds an endpoint twice, and a subscription leaves the list only if a
\* delivery to that subscription failed with 404 or 410.
C40_PushListConsistent ==
  /\ [](\A i, j \in 1..Len(push.subscriptions) :
          push.subscriptions[i] = push.subscriptions[j] => i = j)
  /\ [][\A e \in Endpoints :
          (e \in Range(push.subscriptions) /\ e \notin Range(push'.subscriptions))
            => e \in push.gone]_vars

====
